---- MODULE Spec2Model ----
(***************************************************************************)
(* SecretConnection (p2p/src/secret_connection.rs): the authenticated      *)
(* encryption handshake of two peers and the framed AEAD record layer.     *)
(*                                                                         *)
(* Byte strings are sequences of integers 0..255.  The cryptographic       *)
(* primitives of the external crates (X25519, Ed25519, HKDF, Merlin,       *)
(* ChaCha20-Poly1305) are modelled symbolically: collision free on the     *)
(* key universe of the model and unforgeable without the key.              *)
(***************************************************************************)
EXTENDS Integers, Sequences, FiniteSets, TLC

VARIABLES
    protocol_version,   \* peer -> Version handed to SecretConnection::new
    local_eph_privkey,  \* peer -> Handshake<AwaitingEphKey>.local_eph_privkey (0 = None)
    pc,                 \* peer -> position inside SecretConnection::new / the caller
    hs,                 \* peer -> Handshake<AwaitingAuthSig> state (after got_key)
    sc,                 \* peer -> SecretConnection fields
    wire,               \* peer -> items in flight TO that peer (io_handler read side)
    rx,                 \* peer -> the read_exact call in progress
    tx,                 \* peer -> the write call in progress
    readLog,            \* peer -> finished read_exact calls (want, buf, status)
    writeLog,           \* peer -> finished write calls (len, seed, frames, status)
    sealed,             \* peer -> frames sealed by that peer: <<nonce, chunk>>
    opened,             \* peer -> frames that passed AEAD open: <<nonce, chunk>>
    lastRead,           \* peer -> the most recent read() call: what it saw and did
    ops,                \* peer -> application calls made so far
    adv,                \* number of adversary steps taken on the transport
    call                \* peer -> the calls made on its Handshake: got_key, got_signature

vars == <<protocol_version, local_eph_privkey, pc, hs, sc, wire, rx, tx, readLog,
          writeLog, sealed, opened, lastRead, ops, adv, call>>

(***************************************************************************)
(* Program constants                                                       *)
(***************************************************************************)
TAG_SIZE == 16
DATA_MAX_SIZE == 1024
DATA_LEN_SIZE == 4
TOTAL_FRAME_SIZE == DATA_MAX_SIZE + DATA_LEN_SIZE

KEY_SIZE == 32
SIG_SIZE == 2 * KEY_SIZE

(***************************************************************************)
(* Bounds of the model                                                     *)
(***************************************************************************)
MaxWrites == 2       \* write calls of the sending caller
MaxReads == 2        \* read_exact calls of the receiving caller
MaxAdv == 1          \* adversary steps on the transport
MaxCalls == 3        \* direct calls on the Handshake values of the two peers

Peers == {"A", "B"}
Other(p) == IF p = "A" THEN "B" ELSE "A"

Versions == {"V0_33", "V0_34"}
EphPrivs == {1, 2}                 \* ephemeral private scalars of the model
\* The callers, as in test_read_write_single_message: one peer sends, the
\* other receives.
Writers == {"A"}
Readers == {"B"}
MsgLens == {0, 1, 1024, 2048, 3000} \* lengths of the buffers handed to write
ReadLens == {1, 1024, 2048}         \* lengths of the buffers handed to read_exact

(***************************************************************************)
(* Byte-string helpers                                                     *)
(***************************************************************************)
Min(a, b) == IF a <= b THEN a ELSE b
Max(a, b) == IF a >= b THEN a ELSE b

Zeros(n) == [i \in 1..n |-> 0]

\* slice[from..] of a Vec / slice (0-based from)
Skip(s, from) == SubSeq(s, from + 1, Len(s))
\* slice[..to]
Take(s, to) == SubSeq(s, 1, to)

\* u32::to_le_bytes
to_le_bytes(n) ==
    << n % 256, (n \div 256) % 256, (n \div 65536) % 256, (n \div 16777216) % 256 >>

\* u32::from_le_bytes
from_le_bytes(b) == b[1] + 256 * b[2] + 65536 * b[3] + 16777216 * b[4]

\* a comparison of the first bytes only
LexGreater_first_byte(a, b, i) == a[1] > b[1]

\* [u8; 32] comparison `a > b`: lexicographic on bytes
RECURSIVE LexGreater(_, _, _)
LexGreater(a, b, i) ==
    IF i > Len(a) \/ i > Len(b) THEN Len(a) > Len(b)
    ELSE IF a[i] # b[i] THEN a[i] > b[i]
    ELSE LexGreater(a, b, i + 1)

\* The caller's buffer of a write: byte i (0-based) of the buffer
\* with the given seed.  251 is prime to 1024, so that any two 1024-byte
\* windows of one buffer differ.
Pattern(len, seed) == [i \in 1..len |-> (i - 1 + 7 * seed) % 251]

(***************************************************************************)
(* External crates, symbolically                                           *)
(***************************************************************************)
\* Identifies every 32-byte string of the model's universe: keys differ in
\* their first and last byte, shared secrets in their first two bytes.
Digest(x) == << x[1], x[2], x[Len(x)] >>

\* x25519_dalek: EphemeralPublic::from(&EphemeralSecret).  The 32 bytes
\* stand for the u-coordinate of [priv]B; the last byte 2 keeps them apart
\* from the points of low order (u = 1 is one of them).
EphemeralPublic(priv) == <<priv>> \o Zeros(KEY_SIZE - 2) \o <<2>>

\* A second encoding of the same curve point: X25519 ignores the top bit of
\* the last byte of a public key.
AliasOf(pub) == [pub EXCEPT ![KEY_SIZE] = (@ + 128) % 256]

\* x25519_dalek: EphemeralSecret::diffie_hellman.  Commutative in the two
\* private scalars.  The top bit of the key is dropped and u is taken
\* modulo p = 2^255 - 19; the clamped scalar is a multiple of 8, so that the
\* result is all-zero for every point of low order: u = 0, 1, p - 1 (of
\* order 4, 1, 2), the two u of order 8, and p, p + 1, which are 0 and 1
\* modulo p.  low_order holds every such string below 2^255.
diffie_hellman(priv, remote_pub) ==
    LET pt == [remote_pub EXCEPT ![KEY_SIZE] = @ % 128]
        low_order ==
            { Zeros(KEY_SIZE),
              <<1>> \o Zeros(KEY_SIZE - 1),
              << 224, 235, 122, 124, 59, 65, 184, 174, 22, 86, 227, 250, 241, 159, 196, 106,
                 218, 9, 141, 235, 156, 50, 177, 253, 134, 98, 5, 22, 95, 73, 184, 0 >>,
              << 95, 156, 149, 188, 163, 80, 140, 36, 177, 208, 177, 85, 156, 131, 239, 91,
                 4, 68, 92, 196, 88, 28, 142, 134, 216, 34, 78, 221, 208, 159, 17, 87 >>,
              <<236>> \o [i \in 1..(KEY_SIZE - 2) |-> 255] \o <<127>>,
              <<237>> \o [i \in 1..(KEY_SIZE - 2) |-> 255] \o <<127>>,
              <<238>> \o [i \in 1..(KEY_SIZE - 2) |-> 255] \o <<127>> }
    IN  IF pt \in low_order THEN Zeros(KEY_SIZE)
        ELSE << Min(priv, pt[1]), Max(priv, pt[1]) >> \o Zeros(KEY_SIZE - 2)

\* The long-term identity of each peer: ed25519::Keypair and its public key
Keypair(p) == IF p = "A" THEN 1 ELSE 2
Ed25519Public(k) == <<k>> \o Zeros(KEY_SIZE - 2) \o <<1>>

\* ed25519: Signer::try_sign.  The 64 bytes stand for the signature (R, s)
\* the holder of private key k makes on msg; their second half is no scalar
\* below the order of the base point (last byte 31), so that they are none of
\* the pairs (R, s) the points of the curve are computed for below.
try_sign(k, msg) == <<k>> \o msg \o Zeros(SIG_SIZE - 2 - KEY_SIZE) \o <<31>>

(***************************************************************************)
(* curve25519-dalek, computed: the field of 2^255 - 19 elements on strings *)
(* of KEY_SIZE bytes, least significant byte first, and the points of the  *)
(* twisted Edwards curve -x^2 + y^2 = 1 + d x^2 y^2 in extended             *)
(* coordinates (X : Y : Z : T), x = X/Z, y = Y/Z, T = XY/Z.                 *)
(***************************************************************************)
\* p = 2^255 - 19, FieldElement::one, constants::EDWARDS_D and
\* constants::BASEPOINT_ORDER (l, the order of the base point)
FIELD_P == <<237>> \o [i \in 1..(KEY_SIZE - 2) |-> 255] \o <<127>>
FieldOne == <<1>> \o Zeros(KEY_SIZE - 1)
EDWARDS_D ==
    << 163, 120, 89, 19, 202, 77, 235, 117, 171, 216, 65, 65, 77, 10, 112, 0,
       152, 232, 121, 119, 121, 64, 199, 140, 115, 254, 111, 43, 238, 108, 3, 82 >>
BASEPOINT_ORDER ==
    << 237, 211, 245, 92, 26, 99, 18, 88, 214, 156, 247, 162, 222, 249, 222, 20,
       0, 0, 0, 0, 0, 0, 0, 0, 0, 0, 0, 0, 0, 0, 0, 16 >>

\* An operator of TLA+ takes its arguments unevaluated, and evaluates one
\* as often as it is used.  Below, a value that is used more than once is
\* bound first, as the one element of a set: x \in { e }.

\* The carry into limb i of the limbs c, each at most 510, with cin the
\* carry into the first: limb i - 1 overflows, or it is 255 and the carry of
\* a limb below reaches it through limbs that are all 255
CarryInto(c, cin, i) ==
    IF i = 1 THEN cin
    ELSE IF c[i - 1] # 255 THEN c[i - 1] \div 256
    ELSE IF \/ \E j \in 1..(i - 2) : c[j] > 255 /\ \A k \in (j + 1)..(i - 2) : c[k] = 255
            \/ cin = 1 /\ \A k \in 1..(i - 2) : c[k] = 255
         THEN 1 ELSE 0

\* a shifted right by k < 8 bits, and a < b
NatShr(a, k) ==
    CHOOSE r \in { SubSeq([i \in 1..KEY_SIZE |->
                              (x[i] \div 2^n)
                                  + (IF i < KEY_SIZE THEN (x[i + 1] % 2^n) * 2^(8 - n) ELSE 0)],
                          1, KEY_SIZE) : x \in {a}, n \in {k} } : TRUE
NatLess(a, b) ==
    \E x \in {a}, y \in {b} :
        \E i \in 1..KEY_SIZE : x[i] < y[i] /\ \A j \in (i + 1)..KEY_SIZE : x[j] = y[j]

\* One pass of carries over limbs of any size: each limb keeps its low byte
\* and takes the rest of the limb below; what leaves the last limb is worth
\* 2^256 = 38 modulo p and goes to the first
CarryStep(c) ==
    CHOOSE r \in { SubSeq([i \in 1..KEY_SIZE |->
                              (x[i] % 256) + (IF i = 1 THEN 38 * (x[KEY_SIZE] \div 256)
                                              ELSE x[i - 1] \div 256)],
                          1, KEY_SIZE) : x \in {c} } : TRUE

\* The sum of a[i] b[k + 1 - i] for i in lo .. hi, a and b values
RECURSIVE Conv(_, _, _, _, _)
Conv(a, b, k, lo, hi) ==
    CHOOSE r \in { IF l = h THEN a[l] * b[k + 1 - l]
                   ELSE Conv(a, b, k, l, l + (h - l) \div 2)
                            + Conv(a, b, k, l + (h - l) \div 2 + 1, h) :
                       l \in {lo}, h \in {hi} } : TRUE


\* The arithmetic of the field and of the curve is one recursive definition,
\* Curve25519(op, args), with one arm for each operation; the operators
\* that follow name its arms.
RECURSIVE Curve25519(_, _)

\* The bytes of the number with limbs c plus cin, modulo 2^256
Ripple(c, cin) == Curve25519("Ripple", << c, cin >>)

\* a + b and a - b modulo 2^256
NatAdd(a, b) == Curve25519("NatAdd", << a, b >>)
NatSub(a, b) == Curve25519("NatSub", << a, b >>)

\* A field element as KEY_SIZE bytes (below 2^256, not reduced below p), of
\* limbs of at most 510
FieldCarry(c) == Curve25519("FieldCarry", << c >>)

\* FieldElement::to_bytes: the representative below p
FieldCanon(a) == Curve25519("FieldCanon", << a >>)

\* FieldElement: a * b, a + b, a - b
FieldMul(a, b) == Curve25519("FieldMul", << a, b >>)
FieldAdd(a, b) == Curve25519("FieldAdd", << a, b >>)
FieldSub(a, b) == Curve25519("FieldSub", << a, b >>)

\* The Jacobi symbol (a / n) by the binary algorithm, in at most `steps`
\* steps from st = [a, n, t, done]: at the end n = gcd and t the sign
JacobiLoop(st, steps) == Curve25519("JacobiLoop", << st, steps >>)

\* CompressedEdwardsY::decompress(..).is_some(), computed
decompress(bytes) == Curve25519("decompress", << bytes >>)

\* FieldElement::invert, by the binary extended Euclidean algorithm in at
\* most `steps` steps from st = [u, v, x1, x2, done]
InvertLoop(st, steps) == Curve25519("InvertLoop", << st, steps >>)

\* EdwardsPoint + EdwardsPoint (the unified addition, which also doubles)
EdwardsAdd(P, Q) == Curve25519("EdwardsAdd", << P, Q >>)

\* Scalar * EdwardsPoint: the bits of the scalar s from bit st.i down, each
\* a doubling and, when set, an addition of P, in at most `steps` steps
ScalarMulLoop(st, s, P, steps) == Curve25519("ScalarMulLoop", << st, s, P, steps >>)
ScalarMul(s, P) == Curve25519("ScalarMul", << s, P >>)

\* EdwardsPoint::compress: y = Y/Z with the parity of x = X/Z in the top bit
EdwardsCompress(P) == Curve25519("EdwardsCompress", << P >>)

\* CompressedEdwardsY::decompress(..).is_some() on any string of KEY_SIZE
\* bytes
decompress_ok(bytes) == Curve25519("decompress_ok", << bytes >>)

\* The encoding of [s]B + [j]T for any scalar s of KEY_SIZE bytes and j in
\* 0 .. 7
PointBytes(s, j) == Curve25519("PointBytes", << s, j >>)

\* EdwardsPoint::identity, constants::ED25519_BASEPOINT_POINT (B) and
\* EIGHT_TORSION[1] (T, a point of order 8) as points
EdwardsIdentity == [X |-> Zeros(KEY_SIZE), Y |-> FieldOne, Z |-> FieldOne, T |-> Zeros(KEY_SIZE)]
ED25519_BASEPOINT ==
    LET x == << 26, 213, 37, 143, 96, 45, 86, 201, 178, 167, 37, 149, 96, 199, 44, 105,
                92, 220, 214, 253, 49, 226, 164, 192, 254, 83, 110, 205, 211, 54, 105, 33 >>
        y == <<88>> \o [i \in 1..(KEY_SIZE - 1) |-> 102]
    IN  [X |-> x, Y |-> y, Z |-> FieldOne, T |-> FieldMul(x, y)]
TORSION_GENERATOR ==
    LET x == << 74, 209, 69, 197, 70, 70, 161, 222, 56, 226, 229, 19, 112, 60, 25, 92,
                187, 74, 222, 56, 50, 153, 51, 233, 40, 74, 57, 6, 160, 185, 213, 31 >>
        y == << 199, 23, 106, 112, 61, 77, 216, 79, 186, 60, 11, 118, 13, 16, 103, 15,
                42, 32, 83, 250, 44, 57, 204, 198, 78, 199, 253, 119, 146, 172, 3, 122 >>
    IN  [X |-> x, Y |-> y, Z |-> FieldOne, T |-> FieldMul(x, y)]

\* curve25519-dalek EIGHT_TORSION: the eight points of small order, [j]T
\* at index j + 1.  [0]T is the neutral element, [4]T has order 2, [2]T and
\* [6]T have order 4, the others order 8.
EIGHT_TORSION ==
    <<
      << 1, 0, 0, 0, 0, 0, 0, 0, 0, 0, 0, 0, 0, 0, 0, 0,
         0, 0, 0, 0, 0, 0, 0, 0, 0, 0, 0, 0, 0, 0, 0, 0 >>,
      << 199, 23, 106, 112, 61, 77, 216, 79, 186, 60, 11, 118, 13, 16, 103, 15,
         42, 32, 83, 250, 44, 57, 204, 198, 78, 199, 253, 119, 146, 172, 3, 122 >>,
      << 0, 0, 0, 0, 0, 0, 0, 0, 0, 0, 0, 0, 0, 0, 0, 0,
         0, 0, 0, 0, 0, 0, 0, 0, 0, 0, 0, 0, 0, 0, 0, 128 >>,
      << 38, 232, 149, 143, 194, 178, 39, 176, 69, 195, 244, 137, 242, 239, 152, 240,
         213, 223, 172, 5, 211, 198, 51, 57, 177, 56, 2, 136, 109, 83, 252, 5 >>,
      << 236, 255, 255, 255, 255, 255, 255, 255, 255, 255, 255, 255, 255, 255, 255, 255,
         255, 255, 255, 255, 255, 255, 255, 255, 255, 255, 255, 255, 255, 255, 255, 127 >>,
      << 38, 232, 149, 143, 194, 178, 39, 176, 69, 195, 244, 137, 242, 239, 152, 240,
         213, 223, 172, 5, 211, 198, 51, 57, 177, 56, 2, 136, 109, 83, 252, 133 >>,
      << 0, 0, 0, 0, 0, 0, 0, 0, 0, 0, 0, 0, 0, 0, 0, 0,
         0, 0, 0, 0, 0, 0, 0, 0, 0, 0, 0, 0, 0, 0, 0, 0 >>,
      << 199, 23, 106, 112, 61, 77, 216, 79, 186, 60, 11, 118, 13, 16, 103, 15,
         42, 32, 83, 250, 44, 57, 204, 198, 78, 199, 253, 119, 146, 172, 3, 250 >>
    >>

\* The other 32-byte strings CompressedEdwardsY::decompress maps to a point
\* of small order, each with the j of its point [j]T: the sign bit set on a
\* point with x = 0, and y + p in place of y (decompress reduces y mod p)
TorsionAliases ==
    {
      << <<1>> \o Zeros(KEY_SIZE - 2) \o <<128>>, 0 >>,
      << <<236>> \o [i \in 1..(KEY_SIZE - 2) |-> 255] \o <<255>>, 4 >>,
      << <<237>> \o [i \in 1..(KEY_SIZE - 2) |-> 255] \o <<127>>, 6 >>,
      << <<237>> \o [i \in 1..(KEY_SIZE - 2) |-> 255] \o <<255>>, 2 >>,
      << <<238>> \o [i \in 1..(KEY_SIZE - 2) |-> 255] \o <<127>>, 0 >>,
      << <<238>> \o [i \in 1..(KEY_SIZE - 2) |-> 255] \o <<255>>, 0 >>
    }

\* The j of the point [j]T of small order a 32-byte string decompresses to,
\* -1 when it decompresses to no such point
TorsionIndex(bytes) ==
    IF \E j \in 1..8 : EIGHT_TORSION[j] = bytes
    THEN (CHOOSE j \in 1..8 : EIGHT_TORSION[j] = bytes) - 1
    ELSE IF \E a \in TorsionAliases : a[1] = bytes
    THEN (CHOOSE a \in TorsionAliases : a[1] = bytes)[2]
    ELSE -1

\* The keys ed25519::PublicKey::from_bytes accepts that are points of small
\* order, and among them the encodings of the neutral element
SmallOrderKeys ==
    { EIGHT_TORSION[j] : j \in 1..8 } \cup { a[1] : a \in TorsionAliases }
NeutralKeys == { k \in SmallOrderKeys : TorsionIndex(k) = 0 }

\* Strings of KEY_SIZE bytes that encode no point of the curve: y = 2, and
\* y = 1 + 5 * 2^248 (RFC 8032 point decoding: u / v is no square)
NotOnCurve == { <<2>> \o Zeros(KEY_SIZE - 1), <<1>> \o Zeros(KEY_SIZE - 2) \o <<5>> }

\* decompress, computed once for the strings the steps below hand to
\* from_bytes: << bytes, decompress(bytes) >>
Decompressed ==
    { << k, decompress(k) >> :
          k \in { Ed25519Public(n) : n \in 1..2 } \cup NotOnCurve
                    \cup { EIGHT_TORSION[1], EIGHT_TORSION[5], EIGHT_TORSION[7],
                            <<1>> \o Zeros(KEY_SIZE - 2) \o <<128>>,
                            <<3>> \o Zeros(KEY_SIZE - 2) \o <<5>> } }

\* The encodings of [s]B + [j]T, computed once for the scalars and the
\* points of small order that the signatures below are made of:
\* << s, j, encoding >>, s as KEY_SIZE bytes
Compressed ==
    LET sB == { << s, ScalarMul(<<s>> \o Zeros(KEY_SIZE - 1), ED25519_BASEPOINT) >> :
                    s \in {0, 1, 4} }
        jT == { << j, ScalarMul(<<j>> \o Zeros(KEY_SIZE - 1), TORSION_GENERATOR) >> :
                    j \in {0, 2, 4, 6} }
    IN  { << <<b[1]>> \o Zeros(KEY_SIZE - 1), t[1], EdwardsCompress(EdwardsAdd(b[2], t[2])) >> :
              b \in sB, t \in jT }

Curve25519(op, args) ==
    LET Arm(x) ==
          CASE op = "Ripple" ->
                 SubSeq([i \in 1..KEY_SIZE |-> (x[1][i] + CarryInto(x[1], x[2], i)) % 256],
                        1, KEY_SIZE)
            [] op = "NatAdd" ->
                 Ripple(SubSeq([i \in 1..KEY_SIZE |-> x[1][i] + x[2][i]], 1, KEY_SIZE), 0)
            [] op = "NatSub" ->
                 Ripple(SubSeq([i \in 1..KEY_SIZE |-> x[1][i] + 255 - x[2][i]], 1, KEY_SIZE), 1)
            [] op = "FieldCarry" ->
                 \* what leaves the last limb is worth 2^256 = 38 modulo p
                 \* and so is what leaves it when the 38 are added
                 IF CarryInto(x[1], 0, KEY_SIZE + 1) = 1
                 THEN CHOOSE r \in
                          { IF NatLess(s, <<38>> \o Zeros(KEY_SIZE - 1))
                            THEN NatAdd(s, <<38>> \o Zeros(KEY_SIZE - 1))
                            ELSE s :
                                s \in { NatAdd(Ripple(x[1], 0),
                                               <<38>> \o Zeros(KEY_SIZE - 1)) } } : TRUE
                 ELSE Ripple(x[1], 0)
            [] op = "FieldMul" ->
                 \* the limbs above the last are worth 38 times those
                 \* KEY_SIZE below
                 LET ConvAt(k) ==
                         Conv(x[1], x[2], k, IF k > KEY_SIZE THEN k - KEY_SIZE + 1 ELSE 1,
                              IF k > KEY_SIZE THEN KEY_SIZE ELSE k)
                 IN  FieldCarry(CarryStep(CarryStep(CarryStep(SubSeq(
                         [i \in 1..KEY_SIZE |->
                             ConvAt(i) + (IF i < KEY_SIZE THEN 38 * ConvAt(i + KEY_SIZE) ELSE 0)],
                         1, KEY_SIZE)))))
            [] op = "FieldAdd" ->
                 FieldCarry(SubSeq([i \in 1..KEY_SIZE |-> x[1][i] + x[2][i]], 1, KEY_SIZE))
            [] op = "FieldSub" ->
                 \* 4p is added, limb by limb at least 255, so that no limb
                 \* is negative
                 FieldCarry(CarryStep(SubSeq(
                     [i \in 1..KEY_SIZE |-> x[1][i] + (IF i = 1 THEN 436 ELSE 510) - x[2][i]],
                     1, KEY_SIZE)))
            [] op = "FieldCanon" ->
                 IF NatLess(x[1], FIELD_P) THEN x[1] ELSE FieldCanon(NatSub(x[1], FIELD_P))
            [] op = "EdwardsAdd" ->
                 LET Last(e, f, g, h) ==
                         [X |-> FieldMul(e, f), Y |-> FieldMul(g, h), Z |-> FieldMul(f, g),
                          T |-> FieldMul(e, h)]
                     Mid(a, b, c, d) ==
                         CHOOSE r \in { Last(e, f, g, h) :
                                            e \in {FieldSub(b, a)}, f \in {FieldSub(d, c)},
                                            g \in {FieldAdd(d, c)}, h \in {FieldAdd(b, a)} } :
                             TRUE
                     Sum(p, q) ==
                         IF p = EdwardsIdentity THEN q
                         ELSE IF q = EdwardsIdentity THEN p
                         ELSE CHOOSE r \in
                                  { Mid(a, b, c, d) :
                                        a \in {FieldMul(FieldSub(p.Y, p.X), FieldSub(q.Y, q.X))},
                                        b \in {FieldMul(FieldAdd(p.Y, p.X), FieldAdd(q.Y, q.X))},
                                        c \in {FieldMul(FieldMul(p.T, FieldAdd(EDWARDS_D,
                                                                              EDWARDS_D)), q.T)},
                                        d \in {FieldMul(FieldAdd(p.Z, p.Z), q.Z)} } : TRUE
                 IN  Sum(x[1], x[2])
            [] op = "ScalarMulLoop" ->
                 LET s == x[2]
                     P == x[3]
                     Step(t) ==
                         IF (s[(t.i - 1) \div 8 + 1] \div 2^((t.i - 1) % 8)) % 2 = 1
                         THEN [acc |-> EdwardsAdd(EdwardsAdd(t.acc, t.acc), P), i |-> t.i - 1]
                         ELSE [acc |-> EdwardsAdd(t.acc, t.acc), i |-> t.i - 1]
                 IN  IF x[1].i = 0 THEN x[1]
                     ELSE IF x[4] = 1 THEN Step(x[1])
                     ELSE ScalarMulLoop(ScalarMulLoop(x[1], s, P, x[4] \div 2), s, P,
                                        x[4] - x[4] \div 2)
            [] op = "ScalarMul" ->
                 ScalarMulLoop([acc |-> EdwardsIdentity, i |-> 8 * KEY_SIZE], x[1], x[2],
                               8 * KEY_SIZE).acc
            [] op = "InvertLoop" ->
                 \* u = a x1, v = a x2 modulo p throughout, and u or v ends
                 \* at 1
                 LET HalfMod(y) == NatShr(IF y[1] % 2 = 1 THEN NatAdd(y, FIELD_P) ELSE y, 1)
                     SubMod(y, z) ==
                         IF NatLess(y, z) THEN NatSub(NatAdd(y, FIELD_P), z) ELSE NatSub(y, z)
                     Halved(s, h) ==
                         IF s.u[1] % 2 = 0
                         THEN [ u |-> h, x1 |-> HalfMod(s.x1), v |-> s.v, x2 |-> s.x2,
                                done |-> h = FieldOne ]
                         ELSE [ u |-> s.u, x1 |-> s.x1, v |-> h, x2 |-> HalfMod(s.x2),
                                done |-> h = FieldOne ]
                     Step(s) ==
                         IF s.u[1] % 2 = 0 \/ s.v[1] % 2 = 0
                         THEN CHOOSE r \in
                                  { Halved(s, h) :
                                        h \in { NatShr(IF s.u[1] % 2 = 0 THEN s.u ELSE s.v, 1) } } :
                                  TRUE
                         ELSE IF NatLess(s.u, s.v)
                         THEN [ u |-> s.u, x1 |-> s.x1, v |-> NatSub(s.v, s.u),
                                x2 |-> SubMod(s.x2, s.x1), done |-> FALSE ]
                         ELSE [ u |-> NatSub(s.u, s.v), x1 |-> SubMod(s.x1, s.x2), v |-> s.v,
                                x2 |-> s.x2, done |-> s.u = s.v ]
                 IN  IF x[1].done THEN x[1]
                     ELSE IF x[2] = 1 THEN Step(x[1])
                     ELSE InvertLoop(InvertLoop(x[1], x[2] \div 2), x[2] - x[2] \div 2)
            [] op = "EdwardsCompress" ->
                 \* FieldElement::invert ends with u or v at 1
                 LET Inverse(z) ==
                         CHOOSE r \in
                             { IF end.u = FieldOne THEN end.x1
                               ELSE IF end.v = FieldOne THEN end.x2 ELSE Zeros(KEY_SIZE) :
                                   end \in { InvertLoop([u |-> z, v |-> FIELD_P, x1 |-> FieldOne,
                                                         x2 |-> Zeros(KEY_SIZE),
                                                         done |-> z \in {FieldOne,
                                                                         Zeros(KEY_SIZE)}],
                                                        32 * KEY_SIZE) } } : TRUE
                     Encode(ax, ay) == [ay EXCEPT ![KEY_SIZE] = @ + 128 * (ax[1] % 2)]
                     Affine(Q, zinv) ==
                         Encode(FieldCanon(FieldMul(Q.X, zinv)), FieldCanon(FieldMul(Q.Y, zinv)))
                 IN  CHOOSE r \in
                         { Affine(x[1], zinv) :
                               zinv \in { Inverse(z) : z \in {FieldCanon(x[1].Z)} } } : TRUE
            [] op = "JacobiLoop" ->
                 \* twos are taken out of a, then a and n are exchanged by
                 \* quadratic reciprocity
                 LET Step(s) ==
                         IF s.a[1] % 2 = 0
                         THEN LET k == IF s.a[1] = 0 THEN 8
                                       ELSE CHOOSE e \in 0..7 :
                                                s.a[1] % 2^e = 0 /\ s.a[1] % 2^(e + 1) # 0
                              IN  [ a |-> NatShr(s.a, k), n |-> s.n, done |-> FALSE,
                                    t |-> IF k % 2 = 1 /\ s.n[1] % 8 \in {3, 5}
                                          THEN 0 - s.t ELSE s.t ]
                         ELSE IF NatLess(s.a, s.n)
                         THEN [ a |-> NatSub(s.n, s.a), n |-> s.a, done |-> FALSE,
                                t |-> IF s.a[1] % 4 = 3 /\ s.n[1] % 4 = 3
                                      THEN 0 - s.t ELSE s.t ]
                         ELSE [ a |-> NatSub(s.a, s.n), n |-> s.n, done |-> s.a = s.n,
                                t |-> s.t ]
                 IN  IF x[1].done THEN x[1]
                     ELSE IF x[2] = 1 THEN Step(x[1])
                     ELSE JacobiLoop(JacobiLoop(x[1], x[2] \div 2), x[2] - x[2] \div 2)
            [] op = "decompress" ->
                 \* the sign bit is dropped, y is taken modulo p, and
                 \* x^2 = u / v with u = y^2 - 1, v = d y^2 + 1 must have a
                 \* root (sqrt_ratio_i): u is 0, or u v is a square other
                 \* than 0
                 \E yy \in { FieldMul(y, y) :
                                 y \in { FieldCanon([x[1] EXCEPT ![KEY_SIZE] = @ % 128]) } } :
                 \E u \in { FieldCanon(FieldSub(yy, FieldOne)) } :
                     \/ u = Zeros(KEY_SIZE)
                     \/ \E uv \in { FieldCanon(FieldMul(u, FieldAdd(FieldMul(yy, EDWARDS_D),
                                                                    FieldOne))) } :
                        \E end \in { JacobiLoop([a |-> uv, n |-> FIELD_P, t |-> 1,
                                                 done |-> uv = Zeros(KEY_SIZE)],
                                                32 * KEY_SIZE) } :
                            end.n = FieldOne /\ end.t = 1
            [] op = "decompress_ok" ->
                 IF \E e \in Decompressed : e[1] = x[1]
                 THEN << x[1], TRUE >> \in Decompressed
                 ELSE decompress(x[1])
            [] op = "PointBytes" ->
                 IF \E e \in Compressed : e[1] = x[1] /\ e[2] = x[2]
                 THEN (CHOOSE e \in Compressed : e[1] = x[1] /\ e[2] = x[2])[3]
                 ELSE EdwardsCompress(EdwardsAdd(
                          ScalarMul(x[1], ED25519_BASEPOINT),
                          ScalarMul(<<x[2]>> \o Zeros(KEY_SIZE - 1), TORSION_GENERATOR)))
    IN  CHOOSE r \in { Arm(x) : x \in {args} } : TRUE

\* The signature (R, s) with R the encoding of [s]B + [j]T, s below 256
PointSignature(s, j) ==
    PointBytes(<<s>> \o Zeros(KEY_SIZE - 1), j) \o <<s>> \o Zeros(KEY_SIZE - 1)

\* The values of k mod 8, for k = SHA-512(R || A || msg) mod l the scalar
\* Verifier::verify computes from the signature, the key and the message
HramValues == 0..7

\* The order of the point [t]T
PointOrder(t) == IF t = 0 THEN 1 ELSE IF t % 2 = 1 THEN 8 ELSE IF t = 4 THEN 2 ELSE 4

\* The values of hram on which verify is to be tried for a message: verify
\* depends on hram only under a key [t]T of small order, through hram t
\* mod 8, that is through hram modulo the order of the key; one value
\* stands for all that give the same result
HramInputs(auth_sig_msg) ==
    LET t == TorsionIndex(auth_sig_msg.pub_key.bytes)
    IN  IF t < 0 THEN {0} ELSE { hram \in HramValues : hram < PointOrder(t) }

\* ed25519: Verifier::verify, the cofactorless check R = [s]B - [k]A with
\* no test of the key's order, after check_scalar (s below l); hram is
\* k mod 8.  Under a key A = [t]T of small order [k]A = [k t mod 8]T, so
\* that R is computed: the check holds for the signature (R, s) whose R is
\* the encoding of [s]B - [hram t]T, under the neutral element for every
\* ([s]B, s) whatever the message, under a key of order 2, 4 or 8 for the
\* messages whose k makes R match.  Under the key of a key pair of the
\* model it holds for the signature the holder of the private key made on
\* msg, which stands for the pair (R, s) that SHA-512 would give.  Under
\* any other key the model has no signature: to make one takes the private
\* key, which no step of the model holds.
verify(pub, msg, sig, hram) ==
    /\ Len(sig) = SIG_SIZE
    /\ IF TorsionIndex(pub) >= 0
       THEN /\ NatLess(Skip(sig, KEY_SIZE), BASEPOINT_ORDER)
            /\ Take(sig, KEY_SIZE)
                   = PointBytes(Skip(sig, KEY_SIZE),
                                (8 - ((hram * TorsionIndex(pub)) % 8)) % 8)
       ELSE /\ pub = Ed25519Public(sig[1])
            /\ sig = try_sign(sig[1], msg)

\* a transcript to which the two ephemeral public keys were not appended
challenge_bytes_secret_only(low, high, shared) ==
    Digest(shared) \o Zeros(KEY_SIZE - 4) \o <<1>>

\* merlin::Transcript after the three append_message calls:
\* challenge_bytes(b"SECRET_CONNECTION_MAC")
challenge_bytes(low, high, shared) ==
    Digest(low) \o Digest(high) \o Digest(shared) \o Zeros(KEY_SIZE - 10) \o <<1>>

(***************************************************************************)
(* kdf.rs, nonce.rs, protocol.rs                                           *)
(***************************************************************************)
\* Kdf::derive_secrets_and_challenge
derive_secrets_and_challenge(shared, loc_is_least) ==
    LET k0 == Digest(shared) \o Zeros(KEY_SIZE - 4) \o <<2>>
        k1 == Digest(shared) \o Zeros(KEY_SIZE - 4) \o <<3>>
    IN  [ recv_secret |-> IF loc_is_least THEN k0 ELSE k1,
          send_secret |-> IF loc_is_least THEN k1 ELSE k0,
          challenge   |-> Digest(shared) \o Zeros(KEY_SIZE - 4) \o <<4>> ]

\* Nonce::default and Nonce::increment (the 64-bit counter of the nonce)
NonceDefault == 0
increment(nonce) == nonce + 1

\* Version::has_transcript
has_transcript(v) == v = "V0_34"

\* Version::encode_initial_handshake
encode_initial_handshake(v, eph_pubkey) ==
    IF v = "V0_34" THEN << KEY_SIZE + 2, 10, KEY_SIZE >> \o eph_pubkey
    ELSE << KEY_SIZE >> \o eph_pubkey

\* Version::decode_initial_handshake
decode_initial_handshake(v, buf) ==
    IF v = "V0_34"
    THEN IF Len(buf) = KEY_SIZE + 2 /\ buf[1] = 10 /\ buf[2] = KEY_SIZE
         THEN [ok |-> TRUE, key |-> Skip(buf, 2)]
         ELSE [ok |-> FALSE, key |-> <<>>]
    ELSE IF Len(buf) = KEY_SIZE
         THEN [ok |-> TRUE, key |-> buf]
         ELSE [ok |-> FALSE, key |-> <<>>]

\* proto::p2p::AuthSigMessage { pub_key: Option<PublicKey>, sig: Vec<u8> }
AuthSigMessage(kind, key, sig) == [pub_key |-> [sum |-> kind, bytes |-> key], sig |-> sig]

\* Version::encode_auth_signature
AminoPrefix == << 22, 36, 222, 100, KEY_SIZE >>
encode_auth_signature(v, pubkey, signature) ==
    IF v = "V0_34"
    THEN << 102, 10, KEY_SIZE + 2, 10, KEY_SIZE >> \o pubkey
            \o << 18, SIG_SIZE >> \o signature
    ELSE << 105, 10, KEY_SIZE + 5 >> \o AminoPrefix \o pubkey
            \o << 18, SIG_SIZE >> \o signature

\* Version::auth_sig_msg_response_len
auth_sig_msg_response_len(v) ==
    IF v = "V0_34" THEN KEY_SIZE + SIG_SIZE + 7 ELSE KEY_SIZE + SIG_SIZE + 10

\* Version::decode_auth_signature
decode_auth_signature(v, buf) ==
    LET hdr == IF v = "V0_34" THEN 5 ELSE 8
        wellFormed ==
            /\ Len(buf) = auth_sig_msg_response_len(v)
            /\ Take(buf, hdr) = Take(encode_auth_signature(v, Zeros(KEY_SIZE), Zeros(SIG_SIZE)), hdr)
            /\ SubSeq(buf, hdr + KEY_SIZE + 1, hdr + KEY_SIZE + 2) = << 18, SIG_SIZE >>
    IN  IF wellFormed
        THEN [ok |-> TRUE,
              msg |-> AuthSigMessage("Ed25519",
                                     SubSeq(buf, hdr + 1, hdr + KEY_SIZE),
                                     Skip(buf, hdr + KEY_SIZE + 2))]
        ELSE [ok |-> FALSE, msg |-> AuthSigMessage("None", <<>>, <<>>)]

(***************************************************************************)
(* Handshake                                                               *)
(***************************************************************************)
\* sort32 that returns its arguments as given
sort32_unsorted(first, second) == <<first, second>>

\* sort32 that returns hi, lo
sort32_descending(first, second) ==
    IF LexGreater(second, first, 1) THEN <<second, first>> ELSE <<first, second>>

\* sort32: "Return is of the form lo, hi"
sort32(first, second) ==
    IF LexGreater(second, first, 1) THEN <<first, second>> ELSE <<second, first>>

\* sign_challenge
sign_challenge(challenge, local_privkey) == try_sign(local_privkey, challenge)

\* Option::take that leaves the value in place
take_keeps(eph) == eph

\* Option::take on local_eph_privkey: what it leaves behind (None)
take(eph) == 0

NoHs == [ sc_mac |-> <<>>, kdf |-> [recv_secret |-> <<>>, send_secret |-> <<>>, challenge |-> <<>>],
          recv_cipher |-> <<>>, send_cipher |-> <<>>, local_signature |-> <<>>,
          low |-> <<>>, high |-> <<>>, shared |-> <<>> ]

\* got_key from the sort to its end: the AwaitingAuthSig state it returns.
\* low, high and shared are the transcript's inputs, kept for the properties.
AwaitingAuthSig(version, local_privkey, eph, remote_eph_pubkey) ==
    LET local_eph_pubkey == EphemeralPublic(eph)
        shared_secret == diffie_hellman(eph, remote_eph_pubkey)
        sorted == sort32(local_eph_pubkey, remote_eph_pubkey)
        loc_is_least == local_eph_pubkey = sorted[1]
        kdf == derive_secrets_and_challenge(shared_secret, loc_is_least)
        sc_mac == challenge_bytes(sorted[1], sorted[2], shared_secret)
        local_signature ==
            IF has_transcript(version) THEN sign_challenge(sc_mac, local_privkey)
            ELSE sign_challenge(kdf.challenge, local_privkey)
    IN  [ sc_mac |-> sc_mac, kdf |-> kdf,
          recv_cipher |-> kdf.recv_secret,
          send_cipher |-> kdf.send_secret,
          local_signature |-> local_signature,
          low |-> sorted[1], high |-> sorted[2],
          shared |-> shared_secret ]

\* got_key without the test of the shared secret
got_key_any_secret(version, local_privkey, eph, remote_eph_pubkey) ==
    IF eph = 0 THEN [status |-> "ProtocolMisuse", state |-> NoHs]
    ELSE [status |-> "Ok",
          state |-> AwaitingAuthSig(version, local_privkey, eph, remote_eph_pubkey)]

\* Handshake<AwaitingEphKey>::got_key.  eph = 0 is local_eph_privkey = None.
got_key(version, local_privkey, eph, remote_eph_pubkey) ==
    IF eph = 0 THEN [status |-> "ProtocolMisuse", state |-> NoHs]
    ELSE IF diffie_hellman(eph, remote_eph_pubkey) = Zeros(KEY_SIZE)
    THEN [status |-> "InvalidKey", state |-> NoHs]
    ELSE [status |-> "Ok",
          state |-> AwaitingAuthSig(version, local_privkey, eph, remote_eph_pubkey)]

\* ed25519::PublicKey::from_bytes: the length, then the decompression of
\* the point
ed25519_from_bytes_ok(bytes) == Len(bytes) = KEY_SIZE /\ decompress_ok(bytes)

\* got_signature that does not verify the signature
got_signature_unverified(version, state, auth_sig_msg, hram) ==
    LET pk == auth_sig_msg.pub_key
    IN  IF ~(pk.sum = "Ed25519" /\ ed25519_from_bytes_ok(pk.bytes))
        THEN [status |-> "CryptoError", at |-> "pub_key", pubkey |-> <<>>]
        ELSE IF Len(auth_sig_msg.sig) # SIG_SIZE
        THEN [status |-> "CryptoError", at |-> "sig", pubkey |-> <<>>]
        ELSE [status |-> "Ok", at |-> "end", pubkey |-> pk.bytes]

\* Handshake<AwaitingAuthSig>::got_signature.  at: the statement it
\* returned from; hram: the scalar verify hashes, mod 8.
\* Signature::try_from takes any 64 bytes: a second half that is no scalar
\* below l is refused by check_scalar inside verify.  (A later ed25519
\* crate refuses a last byte of 32 or more in try_from already; the error
\* returned is the same CryptoError, and no signature of the model has
\* such a byte.)
got_signature(version, state, auth_sig_msg, hram) ==
    LET pk == auth_sig_msg.pub_key
        remote_pubkey_ok == pk.sum = "Ed25519" /\ ed25519_from_bytes_ok(pk.bytes)
        remote_sig_ok == Len(auth_sig_msg.sig) = SIG_SIZE
        challenge == IF has_transcript(version) THEN state.sc_mac ELSE state.kdf.challenge
    IN  IF ~remote_pubkey_ok
        THEN [status |-> "CryptoError", at |-> "pub_key", pubkey |-> <<>>]
        ELSE IF ~remote_sig_ok
        THEN [status |-> "CryptoError", at |-> "sig", pubkey |-> <<>>]
        ELSE IF ~verify(pk.bytes, challenge, auth_sig_msg.sig, hram)
        THEN [status |-> "CryptoError", at |-> "verify", pubkey |-> <<>>]
        ELSE [status |-> "Ok", at |-> "end", pubkey |-> pk.bytes]

(***************************************************************************)
(* SecretConnection: the record layer                                      *)
(***************************************************************************)
\* What travels on the transport: the bytes of an initial handshake message,
\* or one sealed frame of TAG_SIZE + TOTAL_FRAME_SIZE bytes.  A sealed frame
\* is written as what was sealed (the key, the nonce and the plaintext body
\* of the ChaCha20-Poly1305 seal) and delta, the offset (from 1) of a byte
\* of the sealed frame that was altered since, 0 when none was.
BytesItem(b) == [kind |-> "bytes", bytes |-> b, key |-> <<>>, nonce |-> 0,
                 body |-> <<>>, delta |-> 0]
SealedFrame(key, nonce, body) ==
    [kind |-> "frame", bytes |-> <<>>, key |-> key, nonce |-> nonce,
     body |-> body, delta |-> 0]

\* Number of bytes of an item on the wire
WireLen(item) == IF item.kind = "frame" THEN Len(item.body) + TAG_SIZE ELSE Len(item.bytes)

\* encrypt that seals the length and the chunk without the padding
encrypt_unpadded(chunk, send_cipher, send_nonce) ==
    SealedFrame(send_cipher, send_nonce, to_le_bytes(Len(chunk)) \o chunk)

\* SecretConnection::encrypt.  The two debug_assert! refuse an empty chunk
\* and one of more than DATA_MAX_SIZE bytes: encrypt panics and seals
\* nothing (kind "panic").  Without debug assertions the longer chunk
\* panics as well, where it is copied into the frame.
encrypt(chunk, send_cipher, send_nonce) ==
    IF chunk = <<>> \/ Len(chunk) > TOTAL_FRAME_SIZE - DATA_LEN_SIZE
    THEN [kind |-> "panic", bytes |-> <<>>, key |-> <<>>, nonce |-> 0,
          body |-> <<>>, delta |-> 0]
    ELSE SealedFrame(send_cipher, send_nonce,
                     to_le_bytes(Len(chunk)) \o chunk
                         \o Zeros(TOTAL_FRAME_SIZE - DATA_LEN_SIZE - Len(chunk)))

\* decrypt that decrypts without checking the tag
decrypt_unauthenticated(ciphertext, recv_cipher, recv_nonce) ==
    IF /\ ciphertext.kind = "frame"
       /\ ciphertext.key = recv_cipher
       /\ ciphertext.nonce = recv_nonce
    THEN [ok |-> TRUE, frame |-> ciphertext.body]
    ELSE [ok |-> FALSE, frame |-> <<>>]

\* decrypt under a nonce that is not the receive counter
decrypt_any_nonce(ciphertext, recv_cipher, recv_nonce) ==
    IF /\ ciphertext.kind = "frame"
       /\ ciphertext.key = recv_cipher
       /\ ciphertext.delta = 0
    THEN [ok |-> TRUE, frame |-> ciphertext.body]
    ELSE [ok |-> FALSE, frame |-> <<>>]

\* SecretConnection::decrypt.  decrypt_in_place_detached succeeds on the
\* output of a seal under the same key and nonce, unaltered, and on nothing
\* else.
decrypt(ciphertext, recv_cipher, recv_nonce) ==
    LET ct_len == WireLen(ciphertext) - TAG_SIZE
    IN  IF WireLen(ciphertext) < TAG_SIZE THEN [ok |-> FALSE, frame |-> <<>>]
        ELSE IF TOTAL_FRAME_SIZE < ct_len THEN [ok |-> FALSE, frame |-> <<>>]
        ELSE IF /\ ciphertext.kind = "frame"
                /\ ciphertext.key = recv_cipher
                /\ ciphertext.nonce = recv_nonce
                /\ ciphertext.delta = 0
             THEN [ok |-> TRUE, frame |-> ciphertext.body]
             ELSE [ok |-> FALSE, frame |-> <<>>]

\* A write that puts send_nonce back when write_all fails
io_error_exit_rollback(n, send_nonce, frames) ==
    [status |-> "IoError", n |-> n, send_nonce |-> send_nonce - 1, frames |-> frames]

\* The `?` on write_all: write returns the transport's error, the connection
\* staying as it is at that point
io_error_exit(n, send_nonce, frames) ==
    [status |-> "IoError", n |-> n, send_nonce |-> send_nonce, frames |-> frames]

\* data_copy after one pass of the loop of write
next_data_copy(data, data_copy) ==
    IF DATA_MAX_SIZE < Len(data) THEN Skip(data_copy, DATA_MAX_SIZE) ELSE <<>>

\* a pass of the loop of write that leaves send_nonce as it found it
write_pass_stale_nonce(data, data_copy, n, send_cipher, send_nonce, accepts) ==
    LET chunk == IF DATA_MAX_SIZE < Len(data) THEN Take(data, DATA_MAX_SIZE) ELSE data_copy
    IN  [status |-> "Loop", n |-> n + Len(chunk), send_nonce |-> send_nonce,
         frames |-> << encrypt(chunk, send_cipher, send_nonce) >>]

\* One pass of the loop of SecretConnection::write: the chunk is cut,
\* sealed under send_nonce, send_nonce is incremented, the sealed frame is
\* handed to write_all and n is advanced.  data is the caller's buffer,
\* data_copy the cursor, n the running total, accepts the number of
\* write_all calls the transport still completes.  "Loop": the pass ended
\* at the loop's test; frames: what write_all put on the transport.
write_pass(data, data_copy, n, send_cipher, send_nonce, accepts) ==
    LET split == DATA_MAX_SIZE < Len(data)
        \* chunk = &data[..DATA_MAX_SIZE] or chunk = data_copy
        chunk == IF split THEN Take(data, DATA_MAX_SIZE) ELSE data_copy
    IN  IF split /\ Len(data_copy) < DATA_MAX_SIZE  \* &data_copy[DATA_MAX_SIZE..]
        THEN [status |-> "Panic", n |-> n, send_nonce |-> send_nonce, frames |-> <<>>]
        ELSE IF encrypt(chunk, send_cipher, send_nonce).kind = "panic"
        THEN [status |-> "Panic", n |-> n, send_nonce |-> send_nonce, frames |-> <<>>]
        ELSE IF accepts = 0  \* encrypt, send_nonce.increment(), write_all(..)?
        THEN io_error_exit(n, increment(send_nonce), <<>>)
        ELSE [status |-> "Loop", n |-> n + Len(chunk),
              send_nonce |-> increment(send_nonce),
              frames |-> << encrypt(chunk, send_cipher, send_nonce) >>]

\* The loop of SecretConnection::write from the test of one pass to the
\* return; frames: the sealed frames handed to the transport so far.
RECURSIVE write_loop(_, _, _, _, _, _, _)
write_loop(data, data_copy, n, send_cipher, send_nonce, frames, accepts) ==
    IF data_copy = <<>>
    THEN [status |-> "Ok", n |-> n, send_nonce |-> send_nonce, frames |-> frames]
    ELSE LET r == write_pass(data, data_copy, n, send_cipher, send_nonce, accepts)
         IN  IF r.status # "Loop"
             THEN [r EXCEPT !.frames = frames]
             ELSE write_loop(data, next_data_copy(data, data_copy), r.n, send_cipher,
                             r.send_nonce, frames \o r.frames, accepts - 1)

\* <SecretConnection as Write>::write over a transport that completes the
\* first accepts write_all calls and fails the next
write_io(data, send_cipher, send_nonce, accepts) ==
    write_loop(data, data, 0, send_cipher, send_nonce, <<>>, accepts)

\* write that seals the whole buffer as one chunk
write_unchunked(data, send_cipher, send_nonce) ==
    [status |-> "Ok", n |-> Len(data), send_nonce |-> increment(send_nonce),
     frames |-> << SealedFrame(send_cipher, send_nonce,
                               to_le_bytes(Len(data)) \o data
                                   \o Zeros(TOTAL_FRAME_SIZE - DATA_LEN_SIZE - Len(data))) >>]

\* <SecretConnection as Write>::write over a transport that completes every
\* write_all (a buffer of Len(data) bytes gives at most that many frames)
write(data, send_cipher, send_nonce) ==
    write_io(data, send_cipher, send_nonce, Len(data))

\* the length check of read, off by one
chunk_too_big_at_max(chunk_length) == chunk_length >= DATA_MAX_SIZE

\* read: `chunk_length as usize > DATA_MAX_SIZE`
chunk_too_big(chunk_length) == chunk_length > DATA_MAX_SIZE

\* <SecretConnection as Read>::read, on a caller buffer of data_len bytes;
\* io is what the transport holds for this peer, empty when its read_exact
\* fails.  took: items read from the transport; open: whether a
\* frame passed AEAD open; chunk_length: its length field.
ReadResult(status, bytes, recv_buffer, recv_nonce, took, open, chunk_length, frame) ==
    [status |-> status, n |-> Len(bytes), bytes |-> bytes, recv_buffer |-> recv_buffer,
     recv_nonce |-> recv_nonce, took |-> took, open |-> open,
     chunk_length |-> chunk_length, frame |-> frame]

read(conn, data_len, io) ==
    IF conn.recv_buffer # <<>>
    THEN LET n == Min(data_len, Len(conn.recv_buffer))
         IN  IF data_len # n  \* data.copy_from_slice(&recv_buffer[..n])
             THEN ReadResult("Panic", <<>>, conn.recv_buffer, conn.recv_nonce, 0, FALSE, 0, <<>>)
             ELSE ReadResult("Ok", Take(conn.recv_buffer, n), Skip(conn.recv_buffer, n),
                             conn.recv_nonce, 0, FALSE, 0, <<>>)
    ELSE IF io = <<>>  \* self.io_handler.read_exact(&mut sealed_frame)?
    THEN ReadResult("IoError", <<>>, conn.recv_buffer, conn.recv_nonce, 0, FALSE, 0, <<>>)
    ELSE
    LET res == decrypt(Head(io), conn.recv_cipher, conn.recv_nonce)
        frame == res.frame
        chunk_length == from_le_bytes(Take(frame, DATA_LEN_SIZE))
        chunk == SubSeq(frame, DATA_LEN_SIZE + 1, DATA_LEN_SIZE + chunk_length)
        n == Min(data_len, Len(chunk))
    IN  IF ~res.ok
        THEN ReadResult("CryptoError", <<>>, conn.recv_buffer, conn.recv_nonce, 1, FALSE, 0, <<>>)
        ELSE IF chunk_too_big(chunk_length)
        THEN ReadResult("FramingError", <<>>, conn.recv_buffer, increment(conn.recv_nonce),
                        1, TRUE, chunk_length, frame)
        ELSE IF Len(conn.recv_buffer) # Len(chunk) - n
             \* self.recv_buffer.copy_from_slice(&chunk[n..])
        THEN ReadResult("Panic", <<>>, conn.recv_buffer, increment(conn.recv_nonce),
                        1, TRUE, chunk_length, frame)
        ELSE ReadResult("Ok", Take(chunk, n), Skip(chunk, n), increment(conn.recv_nonce),
                        1, TRUE, chunk_length, frame)

(***************************************************************************)
(* State                                                                   *)
(***************************************************************************)
\* a connection built with receive and send counters that are not zero
NoSc_used == [ built |-> FALSE, recv_nonce |-> increment(NonceDefault),
               send_nonce |-> increment(NonceDefault),
               recv_cipher |-> <<>>, send_cipher |-> <<>>, remote_pubkey |-> <<>>,
               recv_buffer |-> <<>> ]

\* The fields of SecretConnection as new builds it (built: whether it has)
NoSc == [ built |-> FALSE, recv_nonce |-> NonceDefault, send_nonce |-> NonceDefault,
          recv_cipher |-> <<>>, send_cipher |-> <<>>, remote_pubkey |-> <<>>,
          recv_buffer |-> <<>> ]

\* The read_exact call in progress: on the transport in share_eph_pubkey,
\* on the SecretConnection after; want: the length of its buffer, got: the
\* bytes filled so far
NoRx == [active |-> FALSE, want |-> 0, got |-> <<>>]

\* The write call in progress: the length and seed of its buffer, the bytes
\* data_copy has moved past (done), n, the write_all calls the transport
\* still completes, and of the frames handed to the transport so far their
\* sizes; first and nonce_before: the frames sealed and send_nonce when the
\* call began.
NoTx == [ active |-> FALSE, len |-> 0, seed |-> 0, auth |-> FALSE, done |-> 0, n |-> 0,
          accepts |-> 0, first |-> 0, nonce_before |-> 0, wire_bytes |-> <<>> ]

\* What the most recent read() call saw and did: the length of the caller's
\* buffer and of the leftover buffer before the call, its result, the number
\* of frames it took from the transport (took), whether that frame passed
\* AEAD open, the frame's length field, recv_nonce before and after, and of
\* the frame taken: the offset of an altered byte (delta), whether a peer
\* sealed it (keyed) and the nonce it was sealed under.
NoRead == [ calls |-> 0, data_len |-> 0, leftover_before |-> 0, status |-> "None",
            n |-> 0, took |-> 0, open |-> FALSE, chunk_length |-> 0,
            nonce_before |-> 0, nonce_after |-> 0, delta |-> 0, keyed |-> FALSE,
            sealed_nonce |-> 0 ]

\* The calls made on the Handshake of a peer.  op, status, at: the latest
\* call and its result; got_key_calls: the got_key calls so far, first: the
\* result of the first; dh: the times diffie_hellman was computed, on the
\* keys local and remote with the private scalar eph; state: what the latest
\* got_key returned; msg, pubkey: the argument and result of the latest
\* got_signature, hram: the scalar its verify hashed, mod 8.
NoCall == [ op |-> "none", status |-> "none", at |-> "none", got_key_calls |-> 0,
            first |-> "none", dh |-> 0, eph |-> 0, local |-> <<>>, remote |-> <<>>,
            state |-> NoHs, msg |-> AuthSigMessage("None", <<>>, <<>>), pubkey |-> <<>>,
            hram |-> 0 ]

\* The record of a got_key call on the Handshake of p with result h
GotKeyRecord(p, remote_eph_pubkey, h) ==
    LET eph == local_eph_privkey[p]
        c == call[p]
    IN  [ c EXCEPT !.op = "got_key", !.status = h.status, !.at = "none",
                   !.got_key_calls = Min(@ + 1, 2),
                   !.first = IF c.got_key_calls = 0 THEN h.status ELSE @,
                   !.dh = IF eph # 0 THEN Min(@ + 1, 2) ELSE @,
                   !.eph = IF eph # 0 THEN eph ELSE @,
                   !.local = IF eph # 0 THEN EphemeralPublic(eph) ELSE @,
                   !.remote = IF eph # 0 THEN remote_eph_pubkey ELSE @,
                   !.state = h.state ]

\* The chunk a sealed frame carries
ChunkOf(body) == SubSeq(body, DATA_LEN_SIZE + 1,
                        Min(DATA_LEN_SIZE + from_le_bytes(Take(body, DATA_LEN_SIZE)),
                            Len(body)))

SealedEntries(frames) ==
    [i \in 1..Len(frames) |-> [nonce |-> frames[i].nonce, chunk |-> ChunkOf(frames[i].body)]]

Init ==
    /\ protocol_version \in [Peers -> Versions]
    /\ local_eph_privkey \in [Peers -> EphPrivs]
    /\ pc = [p \in Peers |-> "start"]
    /\ hs = [p \in Peers |-> NoHs]
    /\ sc = [p \in Peers |-> NoSc]
    /\ wire = [p \in Peers |-> <<>>]
    /\ rx = [p \in Peers |-> NoRx]
    /\ tx = [p \in Peers |-> NoTx]
    /\ readLog = [p \in Peers |-> <<>>]
    /\ writeLog = [p \in Peers |-> <<>>]
    /\ sealed = [p \in Peers |-> <<>>]
    /\ opened = [p \in Peers |-> <<>>]
    /\ lastRead = [p \in Peers |-> NoRead]
    /\ ops = [p \in Peers |-> 0]
    /\ adv = 0
    /\ call = [p \in Peers |-> NoCall]

(***************************************************************************)
(* SecretConnection::new, step by step (each step ends where the code      *)
(* blocks on the transport)                                                *)
(***************************************************************************)
\* Handshake::new and the write_all of share_eph_pubkey; new is then inside
\* read_exact(&mut response_len)
ShareEphSend(p) ==
    /\ pc[p] = "start"
    /\ wire' = [wire EXCEPT ![Other(p)] =
                   Append(@, BytesItem(encode_initial_handshake(
                                 protocol_version[p],
                                 EphemeralPublic(local_eph_privkey[p]))))]
    /\ pc' = [pc EXCEPT ![p] = "eph_wait"]
    /\ rx' = [rx EXCEPT ![p] = [active |-> TRUE, want |-> 1, got |-> <<>>]]
    /\ UNCHANGED <<tx, call, protocol_version, local_eph_privkey, hs, sc, readLog, writeLog,
                   sealed, opened, lastRead, ops, adv>>

\* The write_all of share_eph_pubkey fails: new returns the error
ShareEphSendFails(p) ==
    /\ pc[p] = "start"
    /\ pc' = [pc EXCEPT ![p] = "failed"]
    /\ UNCHANGED <<tx, call, protocol_version, local_eph_privkey, hs, sc, wire, rx, readLog,
                   writeLog, sealed, opened, lastRead, ops, adv>>

\* A read_exact of share_eph_pubkey fails: new returns the error
ShareEphReadFails(p) ==
    /\ pc[p] \in {"eph_wait", "eph_body"}
    /\ pc' = [pc EXCEPT ![p] = "failed"]
    /\ rx' = [rx EXCEPT ![p] = NoRx]
    /\ UNCHANGED <<tx, call, protocol_version, local_eph_privkey, hs, sc, wire, readLog,
                   writeLog, sealed, opened, lastRead, ops, adv>>

\* Where the transport cuts an initial handshake message: after the length
\* byte, and inside what follows it
SegmentAt == {1, 2}

\* The transport delivers the initial handshake message sent to p in two
\* pieces, the first of k bytes
TransportSegment(p, k) ==
    /\ pc[p] \in {"start", "eph_wait"}
    /\ wire[p] # <<>>
    /\ Head(wire[p]).kind = "bytes"
    /\ k < Len(Head(wire[p]).bytes)
    /\ wire' = [wire EXCEPT ![p] = << BytesItem(Take(Head(@).bytes, k)),
                                      BytesItem(Skip(Head(@).bytes, k)) >> \o Tail(@)]
    /\ UNCHANGED <<tx, call, protocol_version, local_eph_privkey, pc, hs, sc, rx, readLog,
                   writeLog, sealed, opened, lastRead, ops, adv>>

\* One read() of the transport by a read_exact in progress r, the transport
\* holding bytes: it takes what fits the rest of the buffer
read_exact_step(r, bytes) ==
    LET k == Min(r.want - Len(r.got), Len(bytes))
    IN  [ got |-> r.got \o Take(bytes, k), rest |-> Skip(bytes, k),
          complete |-> Len(r.got) + k = r.want ]

\* The transport of p after a read() that left rest of its first piece
AfterReadStep(p, rest) ==
    [wire EXCEPT ![p] = IF rest = <<>> THEN Tail(@) ELSE <<BytesItem(rest)>> \o Tail(@)]

\* a buffer of KEY_SIZE bytes whatever the length byte says
eph_buf_fixed(response_len) == KEY_SIZE

\* share_eph_pubkey: let mut buf = vec![0; response_len as usize]
eph_buf(response_len) == response_len

\* share_eph_pubkey: read_exact(&mut response_len) returns; new is then
\* inside read_exact(&mut buf)
ShareEphLen(p) ==
    /\ pc[p] = "eph_wait"
    /\ wire[p] # <<>>
    /\ Head(wire[p]).kind = "bytes"
    /\ LET step == read_exact_step(rx[p], Head(wire[p]).bytes)
           response_len == step.got[1]
       IN  /\ wire' = AfterReadStep(p, step.rest)
           /\ rx' = [rx EXCEPT ![p] = [active |-> TRUE, want |-> eph_buf(response_len),
                                       got |-> <<>>]]
    /\ pc' = [pc EXCEPT ![p] = "eph_body"]
    /\ UNCHANGED <<tx, call, protocol_version, local_eph_privkey, hs, sc, readLog,
                   writeLog, sealed, opened, lastRead, ops, adv>>

\* share_eph_pubkey: one read() of read_exact(&mut buf) and, when the
\* buffer is full, decode_initial_handshake, got_key and the construction of
\* the SecretConnection
ShareEphRecv(p) ==
    /\ pc[p] = "eph_body"
    /\ \/ Len(rx[p].got) = rx[p].want
       \/ wire[p] # <<>> /\ Head(wire[p]).kind = "bytes"
    /\ LET step == IF Len(rx[p].got) = rx[p].want
                   THEN [got |-> rx[p].got, rest |-> <<>>, complete |-> TRUE]
                   ELSE read_exact_step(rx[p], Head(wire[p]).bytes)
           buf == step.got
           dec == decode_initial_handshake(protocol_version[p], buf)
       IN  \E h \in { IF step.complete /\ dec.ok
                       THEN got_key(protocol_version[p], Keypair(p),
                                    local_eph_privkey[p], dec.key)
                       ELSE [status |-> "None", state |-> NoHs] } :
           /\ wire' = IF Len(rx[p].got) = rx[p].want THEN wire
                      ELSE AfterReadStep(p, step.rest)
           /\ IF ~step.complete
              THEN /\ rx' = [rx EXCEPT ![p].got = step.got]
                   /\ UNCHANGED <<pc, local_eph_privkey, hs, sc, call>>
              ELSE /\ rx' = [rx EXCEPT ![p] = NoRx]
                   /\ IF ~dec.ok
                      THEN /\ pc' = [pc EXCEPT ![p] = "failed"]
                           /\ UNCHANGED <<local_eph_privkey, hs, sc, call>>
                      ELSE /\ local_eph_privkey' = [local_eph_privkey EXCEPT ![p] = take(@)]
                           /\ call' = [call EXCEPT ![p] = GotKeyRecord(p, dec.key, h)]
                           /\ IF h.status # "Ok"
                              THEN /\ pc' = [pc EXCEPT ![p] = "failed"]
                                   /\ UNCHANGED <<hs, sc>>
                              ELSE /\ pc' = [pc EXCEPT ![p] = "auth_send"]
                                   /\ hs' = [hs EXCEPT ![p] = h.state]
                                   /\ sc' = [sc EXCEPT ![p] =
                                               [NoSc EXCEPT !.built = TRUE,
                                                            !.recv_cipher = h.state.recv_cipher,
                                                            !.send_cipher = h.state.send_cipher]]
    /\ UNCHANGED <<tx, protocol_version, readLog, writeLog, sealed, opened, lastRead, ops, adv>>

\* a connection with one counter for both directions
after_write_one_counter(conn, w) ==
    [conn EXCEPT !.send_nonce = w.send_nonce, !.recv_nonce = w.send_nonce]

\* The connection after a write call with result w: of its fields write
\* assigns send_nonce only (self.send_nonce.increment())
after_write(conn, w) == [conn EXCEPT !.send_nonce = w.send_nonce]

\* What a write call did: the length and seed of its buffer, its result,
\* the frames it handed to the transport (sealed[p][first + 1 ..]), their
\* size on the wire and send_nonce before and after.
WriteEntry(p, len, seed, w, auth) ==
    [ len |-> len, seed |-> seed, auth |-> auth, status |-> w.status, n |-> w.n,
      first |-> Len(sealed[p]), frames |-> Len(w.frames),
      wire_bytes |-> [i \in 1..Len(w.frames) |-> WireLen(w.frames[i])],
      nonce_before |-> sc[p].send_nonce, nonce_after |-> w.send_nonce ]

\* The read_exact of share_auth_signature begins
AuthRead(p) ==
    [active |-> TRUE, want |-> auth_sig_msg_response_len(protocol_version[p]), got |-> <<>>]

\* write_all(buf) by a peer p that holds the session keys, buf being of one
\* frame at most: the one write call it makes, over a transport that
\* completes accepts write_all calls
AuthWrite(p, buf, accepts) ==
    \E w \in { write_io(buf, sc[p].send_cipher, sc[p].send_nonce, accepts) } :
        /\ wire' = [wire EXCEPT ![Other(p)] = @ \o w.frames]
        /\ sealed' = [sealed EXCEPT ![p] = @ \o SealedEntries(w.frames)]
        /\ sc' = [sc EXCEPT ![p] = after_write(@, w)]
        /\ writeLog' = [writeLog EXCEPT ![p] = Append(@, WriteEntry(p, Len(buf), 0, w, TRUE))]

\* share_auth_signature up to its read_exact: encode_auth_signature,
\* write_all; called where SecretConnection::new is at the position at
AuthSendFrom(p, at, accepts) ==
    /\ pc[p] = at
    /\ LET buf == encode_auth_signature(protocol_version[p], Ed25519Public(Keypair(p)),
                                        hs[p].local_signature)
       IN  /\ AuthWrite(p, buf, accepts)
           /\ IF accepts > 0
              THEN /\ pc' = [pc EXCEPT ![p] = "auth_wait"]
                   /\ rx' = [rx EXCEPT ![p] = AuthRead(p)]
              ELSE /\ pc' = [pc EXCEPT ![p] = "failed"]
                   /\ UNCHANGED rx
    /\ UNCHANGED <<tx, call, protocol_version, local_eph_privkey, hs, readLog, opened,
                   lastRead, ops, adv>>

\* share_auth_signature called before share_eph_pubkey has returned
ShareAuthSend_early(p) == AuthSendFrom(p, "eph_wait", 1)

\* SecretConnection::new calls share_auth_signature once got_key has
\* returned and the SecretConnection is built
ShareAuthSend(p) == AuthSendFrom(p, "auth_send", 1)

\* The write_all of share_auth_signature fails: new returns the error
ShareAuthSendFails(p) == AuthSendFrom(p, "auth_send", 0)

\* The default Read::read_exact: how it goes on after one read() call.
\* "More": the buffer is not full yet, read is called again.
ReadExactOutcome(r, want, got) ==
    IF r.status # "Ok" THEN r.status
    ELSE IF Len(got) = want THEN "Ok"
    ELSE IF r.n = 0 THEN "UnexpectedEof"
    ELSE "More"

\* The end of SecretConnection::new without the `?` on got_signature
FinishHandshake_unchecked(p, buf, hram) ==
    LET dec == decode_auth_signature(protocol_version[p], buf)
        g == got_signature(protocol_version[p], hs[p], dec.msg, hram)
    IN  [pc |-> "ready", remote_pubkey |-> g.pubkey]

\* The end of SecretConnection::new: decode_auth_signature on the bytes
\* read, got_signature, remote_pubkey stored
FinishHandshake(p, buf, hram) ==
    LET dec == decode_auth_signature(protocol_version[p], buf)
        g == got_signature(protocol_version[p], hs[p], dec.msg, hram)
    IN  IF dec.ok /\ g.status = "Ok"
        THEN [pc |-> "ready", remote_pubkey |-> g.pubkey]
        ELSE [pc |-> "failed", remote_pubkey |-> <<>>]

\* One read() call of the read_exact in progress: that of
\* share_auth_signature (followed by the rest of SecretConnection::new) or
\* that of the caller of a connected SecretConnection.  hram: the scalar
\* verify hashes, mod 8, where this call ends the read_exact of
\* share_auth_signature and got_signature runs.
ReadStepOn(p, io) ==
    /\ pc[p] \in {"auth_wait", "ready"}
    /\ rx[p].active
    /\ \E r \in { read(sc[p], rx[p].want - Len(rx[p].got), io) } :
       LET data_len == rx[p].want - Len(rx[p].got)
           got == rx[p].got \o r.bytes
           outcome == ReadExactOutcome(r, rx[p].want, got)
           inHandshake == pc[p] = "auth_wait"
       IN  \E hram \in IF inHandshake /\ outcome = "Ok"
                       THEN HramInputs(decode_auth_signature(protocol_version[p], got).msg)
                       ELSE {0} :
           LET fin == FinishHandshake(p, got, hram) IN
           /\ wire' = [wire EXCEPT ![p] = IF r.took = 1 THEN Tail(@) ELSE @]
           /\ opened' = [opened EXCEPT ![p] =
                           IF r.open
                           THEN Append(@, [nonce |-> sc[p].recv_nonce,
                                           chunk |-> ChunkOf(r.frame)])
                           ELSE @]
           /\ lastRead' = [lastRead EXCEPT ![p] =
                  [ calls |-> Min(@.calls + 1, 2), data_len |-> data_len,
                    leftover_before |-> Len(sc[p].recv_buffer), status |-> r.status,
                    n |-> r.n, took |-> r.took, open |-> r.open,
                    chunk_length |-> r.chunk_length,
                    nonce_before |-> sc[p].recv_nonce, nonce_after |-> r.recv_nonce,
                    delta |-> IF r.took = 1 THEN Head(wire[p]).delta ELSE 0,
                    keyed |-> r.took = 1 /\ Head(wire[p]).key # <<>>,
                    sealed_nonce |-> IF r.took = 1 THEN Head(wire[p]).nonce ELSE 0 ]]
           /\ sc' = [sc EXCEPT ![p].recv_nonce = r.recv_nonce,
                               ![p].recv_buffer = r.recv_buffer,
                               ![p].remote_pubkey =
                                   IF inHandshake /\ outcome = "Ok"
                                   THEN fin.remote_pubkey ELSE @]
           /\ rx' = [rx EXCEPT ![p] = IF outcome = "More" THEN [@ EXCEPT !.got = got]
                                      ELSE NoRx]
           /\ readLog' = [readLog EXCEPT ![p] =
                            IF outcome = "More" THEN @
                            ELSE Append(@, [want |-> rx[p].want, buf |-> got,
                                            status |-> outcome, auth |-> inHandshake])]
           /\ pc' = [pc EXCEPT ![p] =
                       IF outcome = "Panic" THEN "panicked"
                       ELSE IF outcome = "More" THEN @
                       ELSE IF ~inHandshake THEN @
                       ELSE IF outcome = "Ok" THEN fin.pc
                       ELSE "failed"]
    /\ UNCHANGED <<tx, call, protocol_version, local_eph_privkey, hs, writeLog, sealed, ops, adv>>

\* A read() call served from the leftover buffer or from a frame the
\* transport holds (it blocks while there is neither)
ReadStep(p) ==
    /\ sc[p].recv_buffer # <<>> \/ wire[p] # <<>>
    /\ ReadStepOn(p, wire[p])

\* A read() call whose read_exact on the transport fails
ReadIoError(p) ==
    /\ sc[p].recv_buffer = <<>>
    /\ ReadStepOn(p, <<>>)

(***************************************************************************)
(* The caller of a connected SecretConnection                              *)
(***************************************************************************)
\* The seed of the buffer of the next write of peer p
Seed(p) == 1 + ops[p]

\* A write call of p on a buffer of len bytes begins, over a transport that
\* completes accepts write_all calls
NewTx(p, len, accepts) ==
    [ active |-> TRUE, len |-> len, seed |-> Seed(p), auth |-> FALSE, done |-> 0, n |-> 0,
      accepts |-> accepts, first |-> Len(sealed[p]), nonce_before |-> sc[p].send_nonce,
      wire_bytes |-> <<>> ]

\* The write call t of p runs from the test of its loop to the write_all of
\* the next pass, or to its return when there is none: at most one sealed
\* frame reaches the transport.
WritePass(p, t) ==
    \E data \in { Pattern(t.len, t.seed) } :
    \E r \in { IF Skip(data, t.done) = <<>>
                THEN [status |-> "Ok", n |-> t.n, send_nonce |-> sc[p].send_nonce,
                      frames |-> <<>>]
                ELSE write_pass(data, Skip(data, t.done), t.n, sc[p].send_cipher,
                                sc[p].send_nonce, t.accepts) } :
    LET data_copy == Skip(data, t.done)
        rest == next_data_copy(data, data_copy)
        wire_bytes == t.wire_bytes \o [i \in 1..Len(r.frames) |-> WireLen(r.frames[i])]
        returns == r.status # "Loop" \/ rest = <<>>
        entry == [ len |-> t.len, seed |-> t.seed, auth |-> t.auth,
                   status |-> IF r.status = "Loop" THEN "Ok" ELSE r.status, n |-> r.n,
                   first |-> t.first, frames |-> Len(wire_bytes),
                   wire_bytes |-> wire_bytes,
                   nonce_before |-> t.nonce_before, nonce_after |-> r.send_nonce ]
    IN  /\ wire' = [wire EXCEPT ![Other(p)] = @ \o r.frames]
        /\ sealed' = [sealed EXCEPT ![p] = @ \o SealedEntries(r.frames)]
        /\ sc' = [sc EXCEPT ![p] = after_write(@, r)]
        /\ tx' = [tx EXCEPT ![p] =
                    IF returns THEN NoTx
                    ELSE [t EXCEPT !.done = Len(data) - Len(rest), !.n = r.n,
                                   !.accepts = @ - 1, !.wire_bytes = wire_bytes]]
        /\ writeLog' = [writeLog EXCEPT ![p] = IF returns THEN Append(@, entry) ELSE @]
        /\ pc' = [pc EXCEPT ![p] = IF r.status = "Panic" THEN "panicked" ELSE @]

\* write(buf) on a buffer of len bytes begins (write_all(buf) is this one
\* call when it returns len, and no call at all when buf is empty): it runs
\* to its first write_all, and to its return when buf is of one frame
AppWrite(p, len) ==
    /\ pc[p] = "ready"
    /\ ~rx[p].active
    /\ ~tx[p].active
    /\ ops[p] < MaxWrites
    /\ WritePass(p, NewTx(p, len, len))
    /\ ops' = [ops EXCEPT ![p] = @ + 1]
    /\ UNCHANGED <<call, protocol_version, local_eph_privkey, hs, rx, readLog, opened,
                   lastRead, adv>>

\* write(buf) on a buffer of len bytes begins over a transport that
\* completes accepts write_all calls and fails the next one
AppWriteFails(p, len, accepts) ==
    /\ pc[p] = "ready"
    /\ ~rx[p].active
    /\ ~tx[p].active
    /\ ops[p] < MaxWrites
    /\ write_io(Pattern(len, Seed(p)), sc[p].send_cipher, sc[p].send_nonce,
                accepts).status = "IoError"
    /\ WritePass(p, NewTx(p, len, accepts))
    /\ ops' = [ops EXCEPT ![p] = @ + 1]
    /\ UNCHANGED <<call, protocol_version, local_eph_privkey, hs, rx, readLog, opened,
                   lastRead, adv>>

\* The write call in progress goes on: its next pass
WriteStep(p) ==
    /\ pc[p] = "ready"
    /\ tx[p].active
    /\ WritePass(p, tx[p])
    /\ UNCHANGED <<call, protocol_version, local_eph_privkey, hs, rx, readLog, opened,
                   lastRead, ops, adv>>

\* read_exact(buf) on a buffer of n bytes: the call starts; ReadStep makes
\* its read() calls
AppReadExact(p, n) ==
    /\ pc[p] = "ready"
    /\ ~rx[p].active
    /\ ~tx[p].active
    /\ ops[p] < MaxReads
    /\ rx' = [rx EXCEPT ![p] = [active |-> TRUE, want |-> n, got |-> <<>>]]
    /\ ops' = [ops EXCEPT ![p] = @ + 1]
    /\ UNCHANGED <<tx, call, protocol_version, local_eph_privkey, pc, hs, sc, wire, readLog,
                   writeLog, sealed, opened, lastRead, adv>>

Next ==
    \/ \E p \in Peers : ShareEphSend(p)
    \/ \E p \in Peers : ShareEphLen(p)
    \/ \E p \in Peers : ShareEphRecv(p)
    \/ \E p \in Peers : ShareAuthSend(p)
    \/ \E p \in Peers : ReadStep(p)
    \/ \E p \in Writers, len \in MsgLens : AppWrite(p, len)
    \/ \E p \in Writers : WriteStep(p)
    \/ \E p \in Readers, n \in ReadLens : AppReadExact(p, n)

Spec == Init /\ [][Next]_vars

(***************************************************************************)
(* Both peers write and read: a full-duplex link                           *)
(***************************************************************************)
\* Lengths of the buffers both callers hand to write
DuplexLens == {1}
\* Lengths of the buffers both callers hand to read_exact
DuplexReadLens == {1, 2}

NextDuplex ==
    \/ \E p \in Peers : ShareEphSend(p)
    \/ \E p \in Peers : ShareEphLen(p)
    \/ \E p \in Peers : ShareEphRecv(p)
    \/ \E p \in Peers : ShareAuthSend(p)
    \/ \E p \in Peers : ReadStep(p)
    \/ \E p \in Peers, len \in DuplexLens : AppWrite(p, len)
    \/ \E p \in Peers, n \in DuplexReadLens : AppReadExact(p, n)

SpecDuplex == Init /\ [][NextDuplex]_vars

(***************************************************************************)
(* A peer that sends its auth-signature message in two frames              *)
(***************************************************************************)
\* Where the peer cuts its auth-signature message
SplitAt == {1, KEY_SIZE}

\* A peer that is not SecretConnection::new: after got_key it hands its
\* encoded auth-signature message to write in two calls, buf[..k] and
\* buf[k..], and goes on to read the other's.  The first of the two calls:
AuthSendSplit(p, k) ==
    /\ pc[p] = "auth_send"
    /\ LET buf == encode_auth_signature(protocol_version[p], Ed25519Public(Keypair(p)),
                                        hs[p].local_signature)
       IN  /\ AuthWrite(p, Take(buf, k), 1)
           /\ tx' = [tx EXCEPT ![p] = [NoTx EXCEPT !.active = TRUE, !.auth = TRUE,
                                                   !.len = Len(buf), !.done = k]]
    /\ pc' = [pc EXCEPT ![p] = "auth_split"]
    /\ UNCHANGED <<call, protocol_version, local_eph_privkey, hs, rx, readLog, opened,
                   lastRead, ops, adv>>

\* The second of the two calls, and the read_exact begins
AuthSendRest(p) ==
    /\ pc[p] = "auth_split"
    /\ LET buf == encode_auth_signature(protocol_version[p], Ed25519Public(Keypair(p)),
                                        hs[p].local_signature)
       IN  AuthWrite(p, Skip(buf, tx[p].done), 1)
    /\ tx' = [tx EXCEPT ![p] = NoTx]
    /\ pc' = [pc EXCEPT ![p] = "auth_wait"]
    /\ rx' = [rx EXCEPT ![p] = AuthRead(p)]
    /\ UNCHANGED <<call, protocol_version, local_eph_privkey, hs, readLog, opened,
                   lastRead, ops, adv>>

NextSplitPeer ==
    \/ NextDuplex
    \/ \E p \in Peers, k \in SplitAt : AuthSendSplit(p, k)
    \/ \E p \in Peers : AuthSendRest(p)

SpecSplitPeer == Init /\ [][NextSplitPeer]_vars

(***************************************************************************)
(* A transport whose write_all calls can fail                              *)
(***************************************************************************)
\* The write_all calls of one write that complete before one fails
Accepts == {0, 1}

\* Lengths of the buffers handed to write here: one frame, two frames
FaultyLens == {1, 2 * DATA_MAX_SIZE}

NextFaulty ==
    \/ \E p \in Peers : ShareEphSend(p)
    \/ \E p \in Peers : ShareEphLen(p)
    \/ \E p \in Peers : ShareEphRecv(p)
    \/ \E p \in Peers : ShareAuthSend(p)
    \/ \E p \in Peers : ReadStep(p)
    \/ \E p \in Writers, len \in FaultyLens : AppWrite(p, len)
    \/ \E p \in Readers, n \in DuplexLens : AppReadExact(p, n)
    \/ \E p \in Writers, len \in FaultyLens, accepts \in Accepts : AppWriteFails(p, len, accepts)
    \/ \E p \in Writers : WriteStep(p)

SpecFaulty == Init /\ [][NextFaulty]_vars

(***************************************************************************)
(* A transport under the control of an adversary who holds no session key: *)
(* it may alter a byte of a sealed frame, drop, replay or reorder whole     *)
(* sealed frames, and insert a frame of its own making.                     *)
(***************************************************************************)
\* Offsets into a sealed frame: the length field, the first byte of the
\* chunk, the last byte of the padding, the last byte of the tag
TamperOffsets == { 1, DATA_LEN_SIZE + 1, TOTAL_FRAME_SIZE, TOTAL_FRAME_SIZE + TAG_SIZE }

\* A frame made without any session key
ForgedFrame == SealedFrame(<<>>, 0, Zeros(TOTAL_FRAME_SIZE))

RemoveAt(s, i) == SubSeq(s, 1, i - 1) \o SubSeq(s, i + 1, Len(s))
InsertAt(s, i, x) == SubSeq(s, 1, i - 1) \o <<x>> \o SubSeq(s, i, Len(s))

AdvUnchanged ==
    UNCHANGED <<tx, call, protocol_version, local_eph_privkey, pc, hs, sc, rx, readLog, writeLog,
                sealed, opened, lastRead, ops>>

AdvTamper(p, i, d) ==
    /\ adv < MaxAdv
    /\ wire[p][i].kind = "frame"
    /\ wire[p][i].delta = 0
    /\ wire' = [wire EXCEPT ![p][i].delta = d]
    /\ adv' = adv + 1
    /\ AdvUnchanged

AdvDrop(p, i) ==
    /\ adv < MaxAdv
    /\ wire[p][i].kind = "frame"
    /\ wire' = [wire EXCEPT ![p] = RemoveAt(@, i)]
    /\ adv' = adv + 1
    /\ AdvUnchanged

AdvReplay(p, i) ==
    /\ adv < MaxAdv
    /\ wire[p][i].kind = "frame"
    /\ wire' = [wire EXCEPT ![p] = InsertAt(@, i, @[i])]
    /\ adv' = adv + 1
    /\ AdvUnchanged

AdvReorder(p, i) ==
    /\ adv < MaxAdv
    /\ i < Len(wire[p])
    /\ wire[p][i].kind = "frame"
    /\ wire[p][i + 1].kind = "frame"
    /\ wire' = [wire EXCEPT ![p] = [@ EXCEPT ![i] = wire[p][i + 1], ![i + 1] = wire[p][i]]]
    /\ adv' = adv + 1
    /\ AdvUnchanged

AdvInject(p) ==
    /\ adv < MaxAdv
    /\ wire[p] # <<>>
    /\ wire[p][1].kind = "frame"
    /\ wire' = [wire EXCEPT ![p] = <<ForgedFrame>> \o @]
    /\ adv' = adv + 1
    /\ AdvUnchanged

\* The callers exchange one-byte messages here: what the adversary can do
\* to a frame does not depend on the length of its chunk.
AdvMsgLens == {1}

NextAdv ==
    \/ \E p \in Peers : ShareEphSend(p)
    \/ \E p \in Peers : ShareEphLen(p)
    \/ \E p \in Peers : ShareEphRecv(p)
    \/ \E p \in Peers : ShareAuthSend(p)
    \/ \E p \in Peers : ReadStep(p)
    \/ \E p \in Writers, len \in AdvMsgLens : AppWrite(p, len)
    \/ \E p \in Readers, n \in AdvMsgLens : AppReadExact(p, n)
    \/ \E p \in Peers : \E i \in 1..Len(wire[p]) : \E d \in TamperOffsets : AdvTamper(p, i, d)
    \/ \E p \in Peers : \E i \in 1..Len(wire[p]) : AdvDrop(p, i)
    \/ \E p \in Peers : \E i \in 1..Len(wire[p]) : AdvReplay(p, i)
    \/ \E p \in Peers : \E i \in 1..Len(wire[p]) : AdvReorder(p, i)
    \/ \E p \in Peers : AdvInject(p)

SpecAdv == Init /\ [][NextAdv]_vars

\* An adversary between the two SecretConnection::new calls, which replaces
\* the ephemeral public key in an initial handshake message in flight by
\* the other encoding of the same curve point: the receiver computes the
\* same shared secret from a different key.
AdvAliasEph(p) ==
    /\ adv < MaxAdv
    /\ wire[p] # <<>>
    /\ Head(wire[p]).kind = "bytes"
    /\ Len(Head(wire[p]).bytes) > KEY_SIZE
    /\ LET bytes == Head(wire[p]).bytes
           at == Len(bytes) - KEY_SIZE
       IN  wire' = [wire EXCEPT ![p] =
                       <<BytesItem(Take(bytes, at) \o AliasOf(Skip(bytes, at)))>> \o Tail(@)]
    /\ adv' = adv + 1
    /\ AdvUnchanged

\* The adversary replaces the ephemeral public key in flight by a point of
\* low order: the all-zero key, or u = p - 1
AdvZeroEph(p) ==
    /\ adv < MaxAdv
    /\ wire[p] # <<>>
    /\ Head(wire[p]).kind = "bytes"
    /\ Len(Head(wire[p]).bytes) > KEY_SIZE
    /\ \E low \in { Zeros(KEY_SIZE),
                     <<236>> \o [i \in 1..(KEY_SIZE - 2) |-> 255] \o <<127>> } :
           LET bytes == Head(wire[p]).bytes
               at == Len(bytes) - KEY_SIZE
           IN  wire' = [wire EXCEPT ![p] =
                           <<BytesItem(Take(bytes, at) \o low)>> \o Tail(@)]
    /\ adv' = adv + 1
    /\ AdvUnchanged

\* Lengths of what a peer sends in the place of its auth-signature message
LongAuthLens == {200, DATA_MAX_SIZE}

\* A peer that is not SecretConnection::new: after got_key it sends, as its
\* first frame, len bytes that begin with its auth-signature message, and
\* goes on to read the other's.
AuthSendLong(p, len) ==
    /\ pc[p] = "auth_send"
    /\ LET buf == encode_auth_signature(protocol_version[p], Ed25519Public(Keypair(p)),
                                        hs[p].local_signature)
       IN  AuthWrite(p, buf \o Zeros(len - Len(buf)), 1)
    /\ pc' = [pc EXCEPT ![p] = "auth_wait"]
    /\ rx' = [rx EXCEPT ![p] = AuthRead(p)]
    /\ UNCHANGED <<tx, call, protocol_version, local_eph_privkey, hs, readLog, opened,
                   lastRead, ops, adv>>

\* SecretConnection::new and the callers over a transport on which the
\* adversary may do any of the above, whose write_all and read_exact can
\* fail and which delivers in pieces, and with a peer that sends a longer
\* first frame
NextHostile ==
    \/ NextAdv
    \/ \E p \in Peers : AdvAliasEph(p)
    \/ \E p \in Peers : AdvZeroEph(p)
    \/ \E p \in Peers : ShareEphSendFails(p)
    \/ \E p \in Peers : ShareEphReadFails(p)
    \/ \E p \in Peers : ShareAuthSendFails(p)
    \/ \E p \in Peers : ReadIoError(p)
    \/ \E p \in Peers, k \in SegmentAt : TransportSegment(p, k)
    \/ \E p \in Peers, len \in LongAuthLens : AuthSendLong(p, len)

SpecHostile == Init /\ [][NextHostile]_vars

\* The keys and signatures of a peer that holds no private key: the neutral
\* element, its encoding with the sign bit, the point of order 2 and a point
\* of order 4 (32 zero bytes); the signatures ([s]B, s) for s = 0, 1, 4 and
\* (R, 0) with R the point of order 2.
\* Such a peer is not SecretConnection::new: after got_key it sends, as its
\* auth-signature message, a point of small order as its public key with a
\* signature made without any key, and goes on to read the other's.
WeakKeyInputs ==
    { EIGHT_TORSION[1], <<1>> \o Zeros(KEY_SIZE - 2) \o <<128>>, EIGHT_TORSION[5],
      EIGHT_TORSION[7] }
WeakSigInputs == { PointSignature(0, 0), PointSignature(1, 0), PointSignature(4, 0),
                   PointSignature(0, 4) }

AuthSendKeyless(p, key, sig) ==
    /\ pc[p] = "auth_send"
    /\ AuthWrite(p, encode_auth_signature(protocol_version[p], key, sig), 1)
    /\ pc' = [pc EXCEPT ![p] = "auth_wait"]
    /\ rx' = [rx EXCEPT ![p] = AuthRead(p)]
    /\ UNCHANGED <<tx, call, protocol_version, local_eph_privkey, hs, readLog, opened,
                   lastRead, ops, adv>>

NextMitM ==
    \/ \E p \in Peers : ShareEphSend(p)
    \/ \E p \in Peers : ShareEphLen(p)
    \/ \E p \in Peers : ShareEphRecv(p)
    \/ \E p \in Peers : ShareAuthSend(p)
    \/ \E p \in Peers : ReadStep(p)
    \/ \E p \in Peers : AdvAliasEph(p)
    \/ \E p \in Peers : \E key \in WeakKeyInputs, sig \in WeakSigInputs :
           AuthSendKeyless(p, key, sig)

SpecMitM == Init /\ [][NextMitM]_vars

(***************************************************************************)
(* A connected peer that holds the session keys and seals a frame whose     *)
(* length field is more than DATA_MAX_SIZE                                  *)
(***************************************************************************)
OversizeLens == { DATA_MAX_SIZE + 1, TOTAL_FRAME_SIZE, 65536 }
FrameLens == { 1, DATA_MAX_SIZE }

\* What encrypt does, on a frame whose length field is L
SealOversize(p, L) ==
    /\ pc[p] = "ready"
    /\ ~rx[p].active
    /\ ~tx[p].active
    /\ ops[p] < MaxWrites
    /\ LET frame == SealedFrame(sc[p].send_cipher, sc[p].send_nonce,
                                to_le_bytes(L) \o Zeros(DATA_MAX_SIZE))
       IN  /\ wire' = [wire EXCEPT ![Other(p)] = Append(@, frame)]
           /\ sealed' = [sealed EXCEPT ![p] = @ \o SealedEntries(<<frame>>)]
           /\ sc' = [sc EXCEPT ![p].send_nonce = increment(@)]
    /\ ops' = [ops EXCEPT ![p] = @ + 1]
    /\ UNCHANGED <<tx, call, protocol_version, local_eph_privkey, pc, hs, rx, readLog,
                   writeLog, opened, lastRead, adv>>

NextEvilPeer ==
    \/ \E p \in Peers : ShareEphSend(p)
    \/ \E p \in Peers : ShareEphLen(p)
    \/ \E p \in Peers : ShareEphRecv(p)
    \/ \E p \in Peers : ShareAuthSend(p)
    \/ \E p \in Peers : ReadStep(p)
    \/ \E p \in Writers, len \in FrameLens : AppWrite(p, len)
    \/ \E p \in Readers, n \in FrameLens : AppReadExact(p, n)
    \/ \E p \in Writers, L \in OversizeLens : SealOversize(p, L)

SpecEvilPeer == Init /\ [][NextEvilPeer]_vars

(***************************************************************************)
(* A peer that seals any length field, frames altered or forged in         *)
(* transit, and a transport whose read_exact can fail                      *)
(***************************************************************************)
\* The altered byte of a frame here: one of the ciphertext, one of the tag
UnreliableOffsets == { DATA_LEN_SIZE + 1, TOTAL_FRAME_SIZE + TAG_SIZE }

NextUnreliable ==
    \/ \E p \in Peers : ShareEphSend(p)
    \/ \E p \in Peers : ShareEphLen(p)
    \/ \E p \in Peers : ShareEphRecv(p)
    \/ \E p \in Peers : ShareAuthSend(p)
    \/ \E p \in Peers : ReadStep(p)
    \/ \E p \in Writers, len \in AdvMsgLens : AppWrite(p, len)
    \/ \E p \in Readers, n \in AdvMsgLens : AppReadExact(p, n)
    \/ \E p \in Writers : SealOversize(p, DATA_MAX_SIZE + 1)
    \/ \E p \in Readers : \E i \in 1..Len(wire[p]) : \E d \in UnreliableOffsets :
           AdvTamper(p, i, d)
    \/ \E p \in Readers : AdvInject(p)
    \/ \E p \in Readers : ReadIoError(p)

SpecUnreliable == Init /\ [][NextUnreliable]_vars

(***************************************************************************)
(* Direct calls on a Handshake, as in test_evil_peer_shares_invalid_eph_key *)
(* and test_evil_peer_shares_invalid_auth_sig: after Handshake::new, got_key *)
(* on a key of the caller's choice, any number of times, and got_signature  *)
(* on a message of the caller's choice once got_key has returned a          *)
(* Handshake<AwaitingAuthSig>.                                              *)
(***************************************************************************)
\* The keys handed to got_key: those of the model's ephemeral scalars, a
\* second encoding of one of them, and two points of low order, the
\* all-zero key and u = 1
KeyInputs ==
    { EphemeralPublic(e) : e \in EphPrivs }
        \cup { AliasOf(EphemeralPublic(1)), Zeros(KEY_SIZE), <<1>> \o Zeros(KEY_SIZE - 1) }

\* The messages handed to got_signature on the handshake of p.  The
\* signatures: that of the other peer over the challenge of this handshake,
\* that of the other peer over another value, this peer's own, and none.
\* The keys: that of the other peer, an absent one, one of another kind,
\* one of 31 bytes, the strings of 32 bytes that are no point of the curve,
\* a point of the curve that is nobody's key, the neutral element (in two
\* encodings) with signatures that need no private key, and a point of
\* order 4 (32 zero bytes) with such a signature.
AuthSigInputs(p) ==
    LET input == IF has_transcript(protocol_version[p]) THEN hs[p].sc_mac
                 ELSE hs[p].kdf.challenge
        K == Ed25519Public(Keypair(Other(p)))
        good == try_sign(Keypair(Other(p)), input)
        stale == try_sign(Keypair(Other(p)), Zeros(KEY_SIZE))
        own == try_sign(Keypair(p), input)
    IN  { AuthSigMessage("Ed25519", K, sig) : sig \in {good, stale, own, <<>>} }
        \cup { AuthSigMessage(kind, <<>>, sig) :
                   kind \in {"None", "NoSum"}, sig \in {good, <<>>} }
        \cup { AuthSigMessage("Secp256k1", <<2>> \o K, good),
               AuthSigMessage("Ed25519", Tail(K), good),
               AuthSigMessage("Ed25519", Tail(K), <<>>),
               AuthSigMessage("Ed25519", <<3>> \o Zeros(KEY_SIZE - 2) \o <<5>>, good),
               AuthSigMessage("Ed25519", <<3>> \o Zeros(KEY_SIZE - 2) \o <<5>>, <<>>) }
        \cup { AuthSigMessage("Ed25519", k, good) : k \in NotOnCurve }
        \cup { AuthSigMessage("Ed25519", EIGHT_TORSION[1], sig) :
                   sig \in {PointSignature(0, 0), PointSignature(4, 0), good} }
        \cup { AuthSigMessage("Ed25519", N, PointSignature(0, 0)) :
                   N \in {<<1>> \o Zeros(KEY_SIZE - 2) \o <<128>>, EIGHT_TORSION[7]} }

CallsLeft == ops["A"] + ops["B"] < MaxCalls

\* h.got_key(remote_eph_pubkey) on the Handshake<AwaitingEphKey> of p
GotKeyCall(p, remote_eph_pubkey) ==
    /\ pc[p] = "start"
    /\ CallsLeft
    /\ LET h == got_key(protocol_version[p], Keypair(p), local_eph_privkey[p],
                        remote_eph_pubkey)
       IN  /\ local_eph_privkey' = [local_eph_privkey EXCEPT ![p] = take(@)]
           /\ hs' = [hs EXCEPT ![p] = IF h.status = "Ok" THEN h.state ELSE @]
           /\ call' = [call EXCEPT ![p] = GotKeyRecord(p, remote_eph_pubkey, h)]
    /\ ops' = [ops EXCEPT ![p] = @ + 1]
    /\ UNCHANGED <<tx, protocol_version, pc, sc, wire, rx, readLog, writeLog, sealed,
                   opened, lastRead, adv>>

\* h.got_signature(auth_sig_msg) on the Handshake<AwaitingAuthSig> of p
GotSignatureCall(p, auth_sig_msg, hram) ==
    /\ pc[p] = "start"
    /\ CallsLeft
    /\ hs[p] # NoHs
    /\ LET g == got_signature(protocol_version[p], hs[p], auth_sig_msg, hram)
       IN  call' = [call EXCEPT ![p] =
                       [@ EXCEPT !.op = "got_signature", !.status = g.status,
                                 !.at = g.at, !.msg = auth_sig_msg,
                                 !.pubkey = g.pubkey, !.hram = hram]]
    /\ ops' = [ops EXCEPT ![p] = @ + 1]
    /\ UNCHANGED <<tx, protocol_version, local_eph_privkey, pc, hs, sc, wire, rx, readLog,
                   writeLog, sealed, opened, lastRead, adv>>

NextCalls ==
    \/ \E p \in Peers : \E k \in KeyInputs : GotKeyCall(p, k)
    \/ \E p \in Peers : \E m \in AuthSigInputs(p) : \E hram \in HramInputs(m) :
           GotSignatureCall(p, m, hram)

SpecCalls == Init /\ [][NextCalls]_vars

\* The two concurrent SecretConnection::new calls alone (test_handshake).
\* Each peer is a thread of its own that keeps running: a step of new that
\* stays possible is taken.
HandshakeStep(p) ==
    \/ ShareEphSend(p)
    \/ ShareEphLen(p)
    \/ ShareEphRecv(p)
    \/ ShareAuthSend(p)
    \/ ReadStep(p)

NextHandshake ==
    \/ \E p \in Peers : HandshakeStep(p)
    \/ \E p \in Peers, k \in SegmentAt : TransportSegment(p, k)

FairHandshake ==
    /\ Init
    /\ [][NextHandshake]_vars
    /\ \A p \in Peers : WF_vars(HandshakeStep(p))

(***************************************************************************)
(* Properties                                                              *)
(***************************************************************************)
RECURSIVE ConcatBufs(_)
ConcatBufs(log) == IF log = <<>> THEN <<>> ELSE log[1].buf \o ConcatBufs(Tail(log))

RECURSIVE ConcatChunks(_)
ConcatChunks(log) == IF log = <<>> THEN <<>> ELSE log[1].chunk \o ConcatChunks(Tail(log))

IsAppCall(e) == ~e.auth
\* The read_exact calls and the write calls of the caller of a connection
AppReads(p) == SelectSeq(readLog[p], IsAppCall)
AppWrites(p) == SelectSeq(writeLog[p], IsAppCall)

\* Every byte read() has handed to its caller so far
Delivered(p) == ConcatBufs(readLog[p]) \o rx[p].got

CeilDiv(a, b) == (a + b - 1) \div b

\* The first k read_exact calls of p asked for the lengths of the first k
\* messages written by the peer, each of 1..DATA_MAX_SIZE bytes
MatchedReads(p, k) ==
    \A j \in 1..k :
        /\ j <= Len(AppWrites(Other(p)))
        /\ AppWrites(Other(p))[j].len \in 1..DATA_MAX_SIZE
        /\ AppReads(p)[j].want = AppWrites(Other(p))[j].len

\* Both SecretConnection::new calls have returned Ok, each connection with
\* the identity public key of the other peer
BothConnected ==
    \A p \in Peers :
        /\ pc[p] = "ready"
        /\ sc[p].remote_pubkey = Ed25519Public(Keypair(Other(p)))

\* C1: two peers that run SecretConnection::new concurrently with the same
\* protocol version and distinct ephemeral keys over a reliable buffered pipe
\* both eventually return Ok, each with the other's identity public key.
HandshakeInterop ==
    (/\ protocol_version["A"] = protocol_version["B"]
     /\ local_eph_privkey["A"] # local_eph_privkey["B"])
        => <>BothConnected

\* Both peers connected under V0_34
HandshakeWitness ==
    /\ BothConnected
    /\ \A p \in Peers : protocol_version[p] = "V0_34"

\* C2: after the handshake, when the peer writes messages of 1 to 1024 bytes
\* and the receiver calls read_exact with the length of each in turn, every
\* read_exact succeeds and its buffer equals the message written, in the
\* order written.
RoundTripSingleFrame ==
    \A p \in Readers :
        \A k \in 1..Len(AppReads(p)) :
            MatchedReads(p, k) =>
                /\ AppReads(p)[k].status = "Ok"
                /\ AppReads(p)[k].buf = Pattern(AppWrites(Other(p))[k].len,
                                                AppWrites(Other(p))[k].seed)

\* Two messages, of exactly 1024 bytes and of 1 byte, written and read back
RoundTripWitness ==
    \E p \in Readers :
        /\ Len(AppReads(p)) = 2
        /\ MatchedReads(p, 2)
        /\ AppReads(p)[1].want = DATA_MAX_SIZE
        /\ AppReads(p)[2].want = 1
        /\ AppReads(p)[2].buf = Pattern(1, AppWrites(Other(p))[2].seed)

\* C3: every write(buf) of n bytes completes, returns n and emits
\* ceil(n / 1024) frames, the k-th carrying buf[1024 k .. min(1024 (k + 1), n)].
WriteChunksBuffer ==
    \A p \in Peers :
        \A i \in 1..Len(AppWrites(p)) :
            LET e == AppWrites(p)[i]
                buf == Pattern(e.len, e.seed)
            IN  /\ e.status = "Ok"
                /\ e.n = e.len
                /\ e.frames = CeilDiv(e.len, DATA_MAX_SIZE)
                /\ \A k \in 0..(e.frames - 1) :
                       sealed[p][e.first + k + 1].chunk =
                           SubSeq(buf, DATA_MAX_SIZE * k + 1,
                                  Min(DATA_MAX_SIZE * (k + 1), e.len))

\* C4: no read aborts; a read with a non-empty leftover buffer copies
\* min(len(buf), len(leftover)) bytes and takes no frame; a read with an empty
\* leftover buffer that opens a frame of chunk length L delivers
\* min(len(buf), L) bytes and keeps the other L - min(len(buf), L) as the
\* leftover; the bytes delivered followed by the leftover are the chunks of
\* the frames opened.
PartialReadsKeepLeftover ==
    \A p \in Peers :
        /\ lastRead[p].status # "Panic"
        /\ lastRead[p].leftover_before > 0 =>
               /\ lastRead[p].n = Min(lastRead[p].data_len, lastRead[p].leftover_before)
               /\ lastRead[p].took = 0
        /\ (lastRead[p].open /\ lastRead[p].chunk_length <= DATA_MAX_SIZE) =>
               /\ lastRead[p].n = Min(lastRead[p].data_len, lastRead[p].chunk_length)
               /\ Len(sc[p].recv_buffer) = lastRead[p].chunk_length - lastRead[p].n
        /\ Delivered(p) \o sc[p].recv_buffer = ConcatChunks(opened[p])

\* C5 as claimed: every write(buf) with len(buf) <= 1024 writes exactly one
\* sealed frame of 1044 bytes and advances send_nonce by one.
SmallWriteOneFrameAny ==
    \A p \in Peers :
        \A i \in 1..Len(writeLog[p]) :
            writeLog[p][i].len <= DATA_MAX_SIZE =>
                /\ writeLog[p][i].frames = 1
                /\ writeLog[p][i].wire_bytes = << TAG_SIZE + TOTAL_FRAME_SIZE >>
                /\ writeLog[p][i].nonce_after = writeLog[p][i].nonce_before + 1

\* C5: every write(buf) with 1 <= len(buf) <= 1024 writes exactly one sealed
\* frame of 1044 bytes to the transport and advances send_nonce by exactly
\* one (a write of an empty buffer writes no frame).
SmallWriteOneFrame ==
    \A p \in Peers :
        \A i \in 1..Len(writeLog[p]) :
            writeLog[p][i].len \in 1..DATA_MAX_SIZE =>
                /\ writeLog[p][i].status = "Ok"
                /\ writeLog[p][i].frames = 1
                /\ writeLog[p][i].wire_bytes = << TAG_SIZE + TOTAL_FRAME_SIZE >>
                /\ writeLog[p][i].nonce_after = writeLog[p][i].nonce_before + 1

\* A caller's write of exactly 1024 bytes has been made
SmallWriteWitness ==
    \E p \in Writers :
        \E i \in 1..Len(writeLog[p]) :
            /\ ~writeLog[p][i].auth
            /\ writeLog[p][i].len = DATA_MAX_SIZE
            /\ writeLog[p][i].frames = 1

\* The i-th frame sealed by a peer (from 0) was sealed under nonce i, the
\* i-th frame the other peer opened is that frame, opened under nonce i, and
\* each counter is the number of frames sealed, or opened, so far.
NonceCountsFrames ==
    \A p \in Peers :
        /\ \A i \in 1..Len(sealed[p]) : sealed[p][i].nonce = i - 1
        /\ \A i, j \in 1..Len(sealed[p]) :
               i # j => sealed[p][i].nonce # sealed[p][j].nonce
        /\ sc[p].send_nonce = Len(sealed[p])
        /\ Len(opened[p]) <= Len(sealed[Other(p)])
        /\ \A i \in 1..Len(opened[p]) :
               /\ opened[p][i].nonce = i - 1
               /\ opened[p][i] = sealed[Other(p)][i]
        /\ sc[p].recv_nonce = Len(opened[p])

\* C9: over a reliable transport the nonce of a frame is its index in its
\* direction, at the sealing and at the opening peer, the counters count the
\* frames sealed and opened, never decrease, and no two frames of a
\* direction are sealed under the same nonce.
NonceIsFrameIndex ==
    [][ /\ NonceCountsFrames'
        /\ \A p \in Peers : /\ sc'[p].send_nonce >= sc[p].send_nonce
                            /\ sc'[p].recv_nonce >= sc[p].recv_nonce ]_vars

\* Three frames sealed in one direction and all three opened by the peer
NonceWitness ==
    \E p \in Peers :
        /\ Len(sealed[p]) >= 3
        /\ Len(opened[Other(p)]) >= 3
        /\ sc[Other(p)].recv_nonce = 3

\* C6: a read that takes from the transport a sealed frame altered in
\* transit, in its ciphertext or in its tag, returns an error, hands no byte
\* to the caller and leaves the leftover buffer as it was.
TamperDetected ==
    \A p \in Peers :
        (lastRead[p].took = 1 /\ lastRead[p].delta # 0) =>
            /\ lastRead[p].status = "CryptoError"
            /\ lastRead[p].n = 0
            /\ ~lastRead[p].open
            /\ lastRead[p].nonce_after = lastRead[p].nonce_before
            /\ Len(sc[p].recv_buffer) = lastRead[p].leftover_before
            /\ Delivered(p) \o sc[p].recv_buffer = ConcatChunks(opened[p])

\* The receiving caller's read took a frame whose tag was altered, after
\* having taken the handshake's frame
TamperWitness ==
    \E p \in Readers :
        /\ pc[p] = "ready"
        /\ lastRead[p].took = 1
        /\ lastRead[p].delta = TOTAL_FRAME_SIZE + TAG_SIZE
        /\ lastRead[p].status = "CryptoError"
        /\ Len(opened[p]) = 1

\* C7: whatever the adversary drops, replays or reorders, the chunks a peer
\* has accepted are a prefix of the chunks the other peer sealed, in order,
\* and a frame is accepted only under the nonce it was sealed under, which
\* is the receiver's counter at that moment.
InOrderAcceptance ==
    \A p \in Peers :
        /\ Len(opened[p]) <= Len(sealed[Other(p)])
        /\ \A i \in 1..Len(opened[p]) : opened[p][i] = sealed[Other(p)][i]
        /\ lastRead[p].open =>
               /\ lastRead[p].sealed_nonce = lastRead[p].nonce_before
               /\ lastRead[p].nonce_before = Len(opened[p]) - 1

\* A frame sealed by the peer and unaltered was refused because it came
\* under another nonce than the receiver's counter (replayed, or ahead of
\* its turn), after the receiver had accepted frames
InOrderWitness ==
    \E p \in Readers :
        /\ adv > 0
        /\ Len(opened[p]) >= 1
        /\ lastRead[p].took = 1
        /\ lastRead[p].keyed
        /\ lastRead[p].delta = 0
        /\ lastRead[p].sealed_nonce # lastRead[p].nonce_before
        /\ lastRead[p].status = "CryptoError"

\* C8: once a read_exact on a connection has failed with a decryption
\* error, no later read_exact on that connection succeeds or delivers a
\* byte.
DecryptionFailureIsTerminal ==
    \A p \in Peers :
        \A i, j \in 1..Len(readLog[p]) :
            (i < j /\ readLog[p][i].status = "CryptoError") =>
                /\ readLog[p][j].status # "Ok"
                /\ readLog[p][j].buf = <<>>

\* What a handshake feeds its transcript: (lower, upper, shared)
Triple(p) == << hs[p].low, hs[p].high, hs[p].shared >>

\* The value got_signature verifies against
ChallengeInput(p) ==
    IF protocol_version[p] = "V0_34" THEN hs[p].sc_mac ELSE hs[p].kdf.challenge

\* The AuthSigMessage a connected peer received in its handshake
ReceivedAuthSig(p) == decode_auth_signature(protocol_version[p], readLog[p][1].buf).msg

\* C10: a connection is returned with remote_pubkey = K only if the
\* signature received verifies under K over this handshake's own challenge
\* input (sc_mac under V0_34, kdf.challenge under V0_33), the value got_key
\* signed locally; under V0_34 the holder of K's private key made that
\* signature in a handshake with the same (lower, upper, shared) triple.
AuthBoundToChallenge ==
    \A p \in Peers :
        pc[p] = "ready" =>
            /\ ReceivedAuthSig(p).pub_key.bytes = sc[p].remote_pubkey
            /\ \E hram \in HramValues :
                   verify(sc[p].remote_pubkey, ChallengeInput(p), ReceivedAuthSig(p).sig,
                          hram)
            /\ hs[p].local_signature = try_sign(Keypair(p), ChallengeInput(p))
            /\ protocol_version[p] = "V0_34" =>
                   \E q \in Peers :
                       /\ Ed25519Public(Keypair(q)) = sc[p].remote_pubkey
                       /\ hs[q].local_signature = ReceivedAuthSig(p).sig
                       /\ Triple(q) = Triple(p)

\* A V0_34 handshake has returned a connection with the peer's key
AuthBoundWitness ==
    \E p \in Peers :
        /\ pc[p] = "ready"
        /\ protocol_version[p] = "V0_34"
        /\ sc[p].remote_pubkey = Ed25519Public(Keypair(Other(p)))
        /\ Triple(p) = Triple(Other(p))

\* A V0_34 handshake has refused the signature the peer made over the
\* challenge of a handshake with another triple
OtherSessionRefused ==
    \E p \in Peers :
        /\ pc[p] = "failed"
        /\ protocol_version[p] = "V0_34"
        /\ Len(readLog[p]) = 1
        /\ readLog[p][1].status = "Ok"
        /\ ReceivedAuthSig(p).sig = hs[Other(p)].local_signature
        /\ Triple(p) # Triple(Other(p))
        /\ hs[p].shared = hs[Other(p)].shared

\* The role bit of a handshake, as its effect: recv_cipher is the first half
\* of the KDF output
LocalIsLower(p) ==
    hs[p].recv_cipher = derive_secrets_and_challenge(hs[p].shared, TRUE).recv_secret

\* Both peers have completed got_key, each on the key of the other, with
\* the same shared secret
KeysExchanged ==
    /\ \A p \in Peers : hs[p] # NoHs /\ call[p].status = "Ok"
    /\ call["A"].remote = call["B"].local
    /\ call["B"].remote = call["A"].local
    /\ hs["A"].shared = hs["B"].shared

MatchedSecrets ==
    /\ hs["A"].send_cipher = hs["B"].recv_cipher
    /\ hs["A"].recv_cipher = hs["B"].send_cipher
    /\ hs["A"].kdf.send_secret = hs["B"].kdf.recv_secret
    /\ hs["A"].kdf.recv_secret = hs["B"].kdf.send_secret
    /\ LocalIsLower("A") # LocalIsLower("B")

\* C11 as claimed: for every pair of ephemeral public keys two peers
\* exchange and complete got_key on, each peer's send secret is the other's
\* recv secret and exactly one of them is the lower.
MatchedSessionKeysAny == KeysExchanged => MatchedSecrets

\* C11: for every pair of byte-unequal ephemeral public keys two peers
\* exchange and complete got_key on with the same shared secret, each
\* peer's send secret is the other's recv secret and exactly one of the two
\* has local_is_lower = true.
MatchedSessionKeys ==
    (KeysExchanged /\ call["A"].local # call["B"].local) => MatchedSecrets

\* Two peers with distinct ephemeral keys have both completed got_key
MatchedKeysWitness ==
    /\ KeysExchanged
    /\ call["A"].local # call["B"].local
    /\ hs["A"].send_cipher = hs["B"].recv_cipher

\* C12 as claimed: on byte-equal keys got_key computes local_is_lower =
\* false; on unequal keys local_is_lower is true exactly when the local key
\* is lexicographically smaller than the remote key.
RoleBitTieFalse ==
    \A p \in Peers :
        (call[p].op = "got_key" /\ call[p].status = "Ok") =>
            IF call[p].local = call[p].remote
            THEN ~LocalIsLower(p)
            ELSE LocalIsLower(p) <=> LexGreater(call[p].remote, call[p].local, 1)

\* C12: on byte-equal keys got_key computes local_is_lower = true (the local
\* key equals the lower of the sorted pair); on unequal keys local_is_lower
\* is true exactly when the local key is lexicographically smaller than the
\* remote key.
RoleBitTieBreak ==
    \A p \in Peers :
        (call[p].op = "got_key" /\ call[p].status = "Ok") =>
            IF call[p].local = call[p].remote
            THEN LocalIsLower(p)
            ELSE LocalIsLower(p) <=> LexGreater(call[p].remote, call[p].local, 1)

\* got_key has returned Ok on a remote key byte-equal to the local key, and
\* on a remote key that differs from the local key in its last byte only
RoleBitWitness ==
    /\ call["A"].status = "Ok" /\ call["A"].local = call["A"].remote
    /\ call["B"].status = "Ok" /\ call["B"].remote = AliasOf(call["B"].local)
    /\ LocalIsLower("B")

\* C13: whenever the shared secret computed in got_key is all-zero, got_key
\* fails with InvalidKey and returns no AwaitingAuthSig state, ciphers or
\* signature, and SecretConnection::new builds no connection and seals no
\* frame; the shared secret of every AwaitingAuthSig state and of every
\* SecretConnection is not zero.
LowOrderRejected ==
    \A p \in Peers :
        /\ (/\ call[p].dh > 0
            /\ diffie_hellman(call[p].eph, call[p].remote) = Zeros(KEY_SIZE)) =>
               /\ call[p].status = "InvalidKey"
               /\ call[p].state = NoHs
               /\ hs[p] = NoHs
               /\ ~sc[p].built
               /\ sealed[p] = <<>>
               /\ pc[p] = "failed"
        /\ hs[p] # NoHs =>
               /\ hs[p].shared # Zeros(KEY_SIZE)
               /\ hs[p].shared = diffie_hellman(call[p].eph, call[p].remote)
        /\ sc[p].built =>
               /\ hs[p] # NoHs
               /\ sc[p].recv_cipher = hs[p].recv_cipher
               /\ sc[p].send_cipher = hs[p].send_cipher

\* SecretConnection::new has failed with InvalidKey on the all-zero key
LowOrderWitness ==
    \E p \in Peers :
        /\ call[p].remote = Zeros(KEY_SIZE)
        /\ call[p].status = "InvalidKey"
        /\ pc[p] = "failed"
        /\ sc[Other(p)].built

\* C14: diffie_hellman is computed at most once on a Handshake; every
\* got_key call after the first, whether the first succeeded or failed,
\* returns ProtocolMisuse, returns no state, computes no diffie_hellman and
\* leaves the handshake as it was.
EphemeralKeySingleUse ==
    [][ \A p \in Peers :
          /\ call'[p].dh <= 1
          /\ call'[p].got_key_calls >= 1 => local_eph_privkey'[p] = 0
          /\ (/\ ops'[p] # ops[p]
              /\ call'[p].op = "got_key"
              /\ call[p].got_key_calls >= 1) =>
                 /\ call'[p].status = "ProtocolMisuse"
                 /\ call'[p].state = NoHs
                 /\ call'[p].dh = call[p].dh
                 /\ hs'[p] = hs[p] ]_vars

\* got_key was called a second time after it had returned Ok
SingleUseWitness ==
    \E p \in Peers :
        /\ call[p].op = "got_key"
        /\ call[p].got_key_calls = 2
        /\ call[p].first = "Ok"
        /\ call[p].status = "ProtocolMisuse"
        /\ call[p].dh = 1

\* got_key was called a second time after it had failed with InvalidKey
SingleUseAfterFailure ==
    \E p \in Peers :
        /\ call[p].got_key_calls = 2
        /\ call[p].first = "InvalidKey"
        /\ call[p].status = "ProtocolMisuse"

\* The keys handed to got_signature that are points of the curve: those of
\* the two key pairs, the points of small order, and y = 3 + 5 * 2^248,
\* which is nobody's key
PointKeys ==
    { Ed25519Public(Keypair(q)) : q \in Peers } \cup SmallOrderKeys
        \cup { <<3>> \o Zeros(KEY_SIZE - 2) \o <<5>> }

\* The signatures a key pair made, over the challenge of the handshake of p
\* or over another value
Signed(p) ==
    { try_sign(Keypair(q), msg) : q \in Peers, msg \in {ChallengeInput(p), Zeros(KEY_SIZE)} }

\* The signature of the message m does not verify on the handshake of p,
\* with hram the scalar of the check mod 8: under the key of a key pair it
\* is not what the holder made over this challenge; the key is nobody's;
\* under a point of small order it is one a key pair made; or it is
\* (neutral element, 0) under the key of order 4 and k is no multiple of 4,
\* so that [k]A is not the neutral element.
DoesNotVerify(p, m, hram) ==
    \/ /\ m.pub_key.bytes \notin SmallOrderKeys
       /\ ~\E q \in Peers : /\ m.pub_key.bytes = Ed25519Public(Keypair(q))
                            /\ m.sig = try_sign(Keypair(q), ChallengeInput(p))
    \/ /\ m.pub_key.bytes \in SmallOrderKeys
       /\ m.sig \in Signed(p)
    \/ /\ m.pub_key.bytes = Zeros(KEY_SIZE)
       /\ m.sig = <<1>> \o Zeros(SIG_SIZE - 1)
       /\ hram % 4 # 0

\* C15: got_signature returns CryptoError and no public key when the
\* message's pub_key is absent, has no variant, is a Secp256k1 key or is no
\* valid Ed25519 key (not 32 bytes, or 32 bytes that encode no point of the
\* curve), whatever the signature sent with it; when the key is a point and
\* the signature is not 64 bytes, it is refused where the signature is
\* parsed; when the key is a point and the signature is 64 bytes that do not
\* verify, it is refused at verify; and Ok is returned only with the key of
\* the message, on a point with a signature of 64 bytes that verifies.
\* Every key of 32 bytes handed to got_signature is in one of the two
\* classes.
RejectedAuthSig ==
    \A p \in Peers :
        call[p].op = "got_signature" =>
            LET m == call[p].msg
                noKey == \/ m.pub_key.sum # "Ed25519"
                         \/ Len(m.pub_key.bytes) # KEY_SIZE
                         \/ m.pub_key.bytes \in NotOnCurve
                isPoint == m.pub_key.sum = "Ed25519" /\ m.pub_key.bytes \in PointKeys
            IN  /\ noKey \/ isPoint
                /\ call[p].status \in {"Ok", "CryptoError"}
                /\ call[p].status = "CryptoError" => call[p].pubkey = <<>>
                /\ noKey => call[p].status = "CryptoError" /\ call[p].at = "pub_key"
                /\ (isPoint /\ Len(m.sig) # SIG_SIZE) =>
                       call[p].status = "CryptoError" /\ call[p].at = "sig"
                /\ (isPoint /\ Len(m.sig) = SIG_SIZE /\ DoesNotVerify(p, m, call[p].hram)) =>
                       call[p].status = "CryptoError" /\ call[p].at = "verify"
                /\ call[p].status = "Ok" =>
                       /\ isPoint
                       /\ Len(m.sig) = SIG_SIZE
                       /\ ~DoesNotVerify(p, m, call[p].hram)
                       /\ call[p].pubkey = m.pub_key.bytes

\* got_signature has refused, at the public key, 32 bytes with last byte 5
\* that encode no point of the curve, sent with the signature the peer made
\* over the challenge of this handshake
RejectedAuthSigWitness ==
    \E p \in Peers :
        /\ call[p].op = "got_signature"
        /\ call[p].msg = AuthSigMessage("Ed25519", <<1>> \o Zeros(KEY_SIZE - 2) \o <<5>>,
                                        try_sign(Keypair(Other(p)), ChallengeInput(p)))
        /\ call[p].status = "CryptoError"
        /\ call[p].at = "pub_key"
        /\ call[p].pubkey = <<>>

\* C16: when one peer runs SecretConnection::new with V0_33 and the other
\* with V0_34, the initial handshake message of each fails to decode at the
\* other, both calls return an error, and neither peer calls got_key or
\* seals an auth-signature frame.
VersionMismatchAborts ==
    (protocol_version["A"] # protocol_version["B"]) =>
        /\ [](\A p \in Peers :
                /\ pc[p] \in {"start", "eph_wait", "eph_body", "failed"}
                /\ call[p].got_key_calls = 0
                /\ hs[p] = NoHs
                /\ ~sc[p].built
                /\ sealed[p] = <<>>)
        /\ <>(\A p \in Peers : pc[p] = "failed")

\* Both peers, of different versions, have failed without a got_key call
VersionMismatchWitness ==
    /\ protocol_version["A"] = "V0_33"
    /\ protocol_version["B"] = "V0_34"
    /\ \A p \in Peers : pc[p] = "failed" /\ call[p].got_key_calls = 0
    /\ wire["A"] = <<>>

\* C17: a read that opens a frame whose length field L is more than 1024
\* returns a framing error, hands no byte to the caller and stores nothing
\* in the leftover buffer; a frame with L <= 1024 is not refused for its
\* length.
OversizeRejected ==
    \A p \in Peers :
        lastRead[p].open =>
            /\ lastRead[p].chunk_length > DATA_MAX_SIZE =>
                   /\ lastRead[p].status = "FramingError"
                   /\ lastRead[p].n = 0
                   /\ sc[p].recv_buffer = <<>>
            /\ lastRead[p].chunk_length <= DATA_MAX_SIZE =>
                   lastRead[p].status # "FramingError"

\* A connected peer has opened a frame with L = 1025 and refused it
OversizeWitness ==
    \E p \in Readers :
        /\ pc[p] = "ready"
        /\ lastRead[p].open
        /\ lastRead[p].chunk_length = DATA_MAX_SIZE + 1
        /\ lastRead[p].status = "FramingError"
        /\ readLog[p][Len(readLog[p])].buf = <<>>

\* C18: SecretConnection::new returns a connection only after got_signature
\* has succeeded and remote_pubkey is stored; when a step of the handshake
\* fails new returns the error, no connection is returned, and the failing
\* peer has sealed no frame but its one auth-signature frame and has made no
\* application call.
NoConnectionWithoutHandshake ==
    \A p \in Peers :
        /\ pc[p] = "ready" =>
               /\ sc[p].remote_pubkey # <<>>
               /\ hs[p] # NoHs
               /\ readLog[p] # <<>>
               /\ readLog[p][1].auth /\ readLog[p][1].status = "Ok"
               /\ \E hram \in HramValues :
                      got_signature(protocol_version[p], hs[p], ReceivedAuthSig(p), hram)
                          = [status |-> "Ok", at |-> "end", pubkey |-> sc[p].remote_pubkey]
        /\ pc[p] = "failed" =>
               /\ sc[p].remote_pubkey = <<>>
               /\ Len(sealed[p]) <= 1
               /\ \A i \in 1..Len(writeLog[p]) : writeLog[p][i].auth
               /\ AppWrites(p) = <<>>
               /\ AppReads(p) = <<>>
        /\ (\/ AppWrites(p) # <<>>
            \/ AppReads(p) # <<>>
            \/ pc[p] = "panicked"
            \/ rx[p].active /\ pc[p] \notin {"eph_wait", "eph_body", "auth_wait"})
               => sc[p].remote_pubkey # <<>>

\* What holds of C18 whether or not SecretConnection::new can panic: a
\* connection is returned only with the verified key stored; a call that
\* failed or panicked inside new has stored no key, has sealed no frame but
\* its auth-signature frame and has made no application call.
NoConnectionUnlessVerified ==
    \A p \in Peers :
        /\ pc[p] = "ready" =>
               /\ sc[p].remote_pubkey # <<>>
               /\ readLog[p] # <<>>
               /\ readLog[p][1].auth /\ readLog[p][1].status = "Ok"
               /\ \E hram \in HramValues :
                      got_signature(protocol_version[p], hs[p], ReceivedAuthSig(p), hram)
                          = [status |-> "Ok", at |-> "end", pubkey |-> sc[p].remote_pubkey]
        /\ (pc[p] = "failed" \/ (pc[p] = "panicked" /\ sc[p].remote_pubkey = <<>>)) =>
               /\ sc[p].remote_pubkey = <<>>
               /\ Len(sealed[p]) <= 1
               /\ AppWrites(p) = <<>>
               /\ AppReads(p) = <<>>
        /\ (AppWrites(p) # <<>> \/ AppReads(p) # <<>>) => sc[p].remote_pubkey # <<>>

\* SecretConnection::new has panicked in the read_exact of
\* share_auth_signature
PanickedInNew ==
    \E p \in Peers :
        /\ pc[p] = "panicked"
        /\ sc[p].remote_pubkey = <<>>
        /\ lastRead[p].open
        /\ lastRead[p].chunk_length > lastRead[p].data_len

\* SecretConnection::new has failed at got_signature, after the peer's
\* auth-signature frame was opened, while it returned a connection to the
\* other peer
NoConnectionWitness ==
    \E p \in Peers :
        /\ pc[p] = "failed"
        /\ Len(sealed[p]) = 1
        /\ readLog[p] # <<>> /\ readLog[p][1].status = "Ok"
        /\ \A hram \in HramValues :
               got_signature(protocol_version[p], hs[p], ReceivedAuthSig(p), hram).at
                   = "verify"
        /\ sc[p].remote_pubkey = <<>>

\* SecretConnection::new has failed on an AEAD failure
FailedOnAead ==
    \E p \in Peers :
        /\ pc[p] = "failed"
        /\ readLog[p] # <<>> /\ readLog[p][1].status = "CryptoError"

\* C19: sort32(a, b) and sort32(b, a) are the same pair (min, max) in
\* lexicographic byte order, sort32(a, a) = (a, a); so two peers that
\* complete got_key on each other's key absorb the same (lower, upper,
\* shared) triple, obtain the same sc_mac and kdf.challenge, and the
\* signature each produced verifies in the other's got_signature.
SameTranscript ==
    /\ \A p \in Peers :
           call[p].dh > 0 =>
               LET a == call[p].local
                   b == call[p].remote
                   lo == IF LexGreater(a, b, 1) THEN b ELSE a
                   hi == IF LexGreater(a, b, 1) THEN a ELSE b
               IN  /\ sort32(a, b) = sort32(b, a)
                   /\ sort32(a, b) = <<lo, hi>>
                   /\ sort32(a, a) = <<a, a>>
                   /\ hs[p] # NoHs => hs[p].low = lo /\ hs[p].high = hi
    /\ KeysExchanged =>
           /\ Triple("A") = Triple("B")
           /\ hs["A"].sc_mac = hs["B"].sc_mac
           /\ hs["A"].kdf.challenge = hs["B"].kdf.challenge
           /\ \A p \in Peers, hram \in HramValues :
                  protocol_version[p] = protocol_version[Other(p)] =>
                      got_signature(protocol_version[Other(p)], hs[Other(p)],
                                    AuthSigMessage("Ed25519", Ed25519Public(Keypair(p)),
                                                   hs[p].local_signature), hram)
                          = [status |-> "Ok", at |-> "end",
                             pubkey |-> Ed25519Public(Keypair(p))]

\* Two peers of the same version have completed got_key on each other's
\* key, and a peer has sorted a key and its second encoding
SameTranscriptWitness ==
    /\ KeysExchanged
    /\ protocol_version["A"] = protocol_version["B"]
    /\ call["A"].local # call["A"].remote
    /\ LexGreater(call["A"].local, call["A"].remote, 1)

\* got_key has sorted a key and its second encoding, which differ in the
\* last byte only
SortedLastByte ==
    \E p \in Peers : call[p].status = "Ok" /\ call[p].remote = AliasOf(call[p].local)

\* The steps of SecretConnection::new in their order
PhaseSteps ==
    { <<"start", "eph_wait">>, <<"start", "failed">>,
      <<"eph_wait", "eph_body">>, <<"eph_wait", "failed">>,
      <<"eph_body", "auth_send">>, <<"eph_body", "failed">>,
      <<"auth_send", "auth_wait">>, <<"auth_send", "failed">>,
      <<"auth_wait", "ready">>, <<"auth_wait", "failed">>, <<"auth_wait", "panicked">>,
      <<"ready", "panicked">> }

\* C20: every execution of SecretConnection::new takes its steps in the
\* order: ephemeral key written, remote ephemeral key read and decoded,
\* got_key, auth-signature written as a sealed frame, remote auth-signature
\* frame read and decoded, got_signature, remote_pubkey stored;
\* got_signature runs only on a handshake whose got_key has succeeded, and
\* no frame is sealed or opened before got_key has produced the ciphers.
PhaseOrdering ==
    [][ \A p \in Peers :
          /\ pc'[p] # pc[p] => <<pc[p], pc'[p]>> \in PhaseSteps
          /\ call'[p] # call[p] =>
                 /\ pc[p] = "eph_body"
                 /\ call[p] = NoCall
                 /\ sealed[p] = <<>>
          /\ hs'[p] # hs[p] => call'[p].status = "Ok" /\ call'[p].state = hs'[p]
          /\ sealed'[p] # sealed[p] => hs[p] # NoHs /\ sc[p].built
          /\ lastRead'[p] # lastRead[p] => hs[p] # NoHs /\ sc[p].built
          /\ opened'[p] # opened[p] => hs[p] # NoHs /\ sealed[p] # <<>>
          /\ (pc[p] = "auth_send" /\ pc'[p] = "auth_wait") =>
                 /\ sealed[p] = <<>> /\ Len(sealed'[p]) = 1
                 /\ opened[p] = <<>>
          /\ sc'[p].remote_pubkey # sc[p].remote_pubkey =>
                 /\ pc[p] = "auth_wait" /\ pc'[p] = "ready"
                 /\ call[p].status = "Ok"
                 /\ Len(sealed[p]) = 1
                 /\ Len(opened'[p]) = 1
          /\ pc'[p] \in {"start", "eph_wait", "eph_body"} =>
                 /\ hs'[p] = NoHs /\ ~sc'[p].built /\ sealed'[p] = <<>> /\ opened'[p] = <<>>
        ]_vars

\* A SecretConnection::new has gone through all its steps
PhaseWitness ==
    \E p \in Peers :
        /\ pc[p] = "ready"
        /\ call[p].status = "Ok"
        /\ Len(sealed[p]) = 1
        /\ Len(opened[p]) = 1
        /\ sc[p].remote_pubkey # <<>>

\* The length field of a 1028-byte plaintext
LengthField(body) == from_le_bytes(Take(body, DATA_LEN_SIZE))

\* A sealed frame as encrypt must build it: 1044 bytes, of which a 1028-byte
\* plaintext of a little-endian length L <= 1024, L bytes and zeros
WellFormedFrame(item) ==
    /\ item.kind = "frame"
    /\ WireLen(item) = TAG_SIZE + TOTAL_FRAME_SIZE
    /\ Len(item.body) = TOTAL_FRAME_SIZE
    /\ LengthField(item.body) <= DATA_MAX_SIZE
    /\ Take(item.body, DATA_LEN_SIZE) = to_le_bytes(LengthField(item.body))
    /\ \A i \in (DATA_LEN_SIZE + LengthField(item.body) + 1)..TOTAL_FRAME_SIZE :
           item.body[i] = 0

RECURSIVE SumLengths(_)
SumLengths(frames) ==
    IF frames = <<>> THEN 0
    ELSE LengthField(frames[1].body) + SumLengths(Tail(frames))

\* C21: every frame that write hands to the transport is 1044 bytes: a
\* 1028-byte plaintext of the little-endian chunk length L <= 1024, the L
\* caller bytes it carries and zero padding, then the 16-byte tag; the
\* lengths of the frames of a write add up to the count it returns.  Stated
\* on every frame in transit and on the frames of every write call made.
WellFormedOnEncode ==
    \A p \in Peers :
        /\ \A i \in 1..Len(wire[p]) :
               wire[p][i].kind = "frame" => WellFormedFrame(wire[p][i])
        /\ \A i \in 1..Len(writeLog[p]) :
               LET e == writeLog[p][i]
                   buf == Pattern(e.len, e.seed)
                   w == write(buf, sc[p].send_cipher, e.nonce_before)
               IN  ~e.auth =>
                       /\ Len(w.frames) = e.frames
                       /\ SumLengths(w.frames) = e.n
                       /\ \A k \in 1..Len(w.frames) :
                              /\ WellFormedFrame(w.frames[k])
                              /\ w.frames[k].nonce = e.nonce_before + k - 1
                              /\ e.wire_bytes[k] = TAG_SIZE + TOTAL_FRAME_SIZE
                              /\ LengthField(w.frames[k].body) = Len(sealed[p][e.first + k].chunk)
                              /\ \E c \in 0..e.frames :
                                     sealed[p][e.first + k].chunk =
                                         SubSeq(buf, DATA_MAX_SIZE * c + 1,
                                                DATA_MAX_SIZE * c + LengthField(w.frames[k].body))

\* A write of more than 1024 bytes has handed frames of L = 1024 to the
\* transport, and a frame of L = 1 with 1023 bytes of padding is in transit
WellFormedWitness ==
    \E p \in Writers :
        /\ \E i \in 1..Len(writeLog[p]) :
               /\ writeLog[p][i].len > DATA_MAX_SIZE
               /\ writeLog[p][i].frames >= 1
               /\ Len(sealed[p][writeLog[p][i].first + 1].chunk) = DATA_MAX_SIZE
        /\ \E j \in 1..Len(wire[Other(p)]) :
               /\ wire[Other(p)][j].kind = "frame"
               /\ LengthField(wire[Other(p)][j].body) = 1

\* The write calls of p that returned the transport's error
FailedWrites(p) == {i \in 1..Len(writeLog[p]) : writeLog[p][i].status = "IoError"}

\* C22 as claimed: send_nonce is incremented after the transport write of a
\* frame, so a write advances send_nonce by the number of frames it handed
\* to the transport whether or not it failed, and send_nonce is the number
\* of frames handed to the transport.
NonceAfterTransportWrite ==
    \A p \in Peers :
        /\ \A i \in 1..Len(writeLog[p]) :
               writeLog[p][i].nonce_after = writeLog[p][i].nonce_before + writeLog[p][i].frames
        /\ sc[p].send_nonce = Len(sealed[p])

\* C22: for each chunk the frame is sealed under the current send_nonce,
\* send_nonce is incremented, and then the 1044 bytes are written to the
\* transport; so a write that completes advances send_nonce by the number of
\* frames it handed to the transport, a write whose transport write fails
\* returns the error with send_nonce advanced for the failed frame too, and
\* send_nonce is the number of frames handed to the transport plus the
\* number of failed writes.
NonceBeforeTransportWrite ==
    \A p \in Peers :
        /\ \A i \in 1..Len(writeLog[p]) :
               LET e == writeLog[p][i]
               IN  /\ \A k \in 1..e.frames :
                          sealed[p][e.first + k].nonce = e.nonce_before + k - 1
                   /\ e.status \in {"Ok", "Panic"} => e.nonce_after = e.nonce_before + e.frames
                   /\ e.status = "IoError" => e.nonce_after = e.nonce_before + e.frames + 1
        /\ sc[p].send_nonce = Len(sealed[p]) + Cardinality(FailedWrites(p))

\* A write of more than 1024 bytes has handed one frame to the transport
\* and returned the transport's error on the second
TransportWriteFailed ==
    \E p \in Writers :
        \E i \in FailedWrites(p) :
            /\ writeLog[p][i].len > DATA_MAX_SIZE
            /\ writeLog[p][i].frames = 1

\* After a failed write, a write has completed: its frame was sealed under a
\* nonce that is not its index in the stream
NonceSkipped ==
    \E p \in Writers :
        /\ FailedWrites(p) # {}
        /\ \E k \in 1..Len(sealed[p]) : sealed[p][k].nonce # k - 1

\* A read_exact on the SecretConnection of p is in progress
Reading(p) == rx[p].active /\ pc[p] \in {"auth_wait", "ready"}

\* The frame at the head of the transport of p is the output of a seal under
\* the receive key and the receive counter of p, unaltered
AuthenticHead(p) ==
    /\ wire[p] # <<>>
    /\ wire[p][1].kind = "frame"
    /\ wire[p][1].key = sc[p].recv_cipher
    /\ wire[p][1].nonce = sc[p].recv_nonce
    /\ wire[p][1].delta = 0

\* C23: read increments recv_nonce by exactly one when, and only when, a
\* frame it has read from the transport passes AEAD open, the frame whose
\* length field is above 1024 included; recv_nonce and the leftover buffer
\* stay as they are when the transport read fails, when AEAD open fails and
\* when the frame is rejected for its length.
RecvNonceCountsAuthenticated ==
    [][ \A p \in Peers :
          LET taken == /\ Reading(p)
                       /\ sc[p].recv_buffer = <<>>
                       /\ wire[p] # <<>>
                       /\ wire'[p] = Tail(wire[p])
                       /\ adv' = adv
              nonce == sc[p].recv_nonce
          IN  /\ sc'[p].recv_nonce \in {nonce, nonce + 1}
              /\ sc'[p].recv_nonce = nonce + 1 <=> (taken /\ AuthenticHead(p))
              /\ (taken /\ ~AuthenticHead(p)) =>
                     /\ lastRead'[p].status = "CryptoError"
                     /\ sc'[p].recv_nonce = nonce
                     /\ sc'[p].recv_buffer = sc[p].recv_buffer
                     /\ opened'[p] = opened[p]
              /\ (taken /\ AuthenticHead(p)) =>
                     /\ Len(opened'[p]) = Len(opened[p]) + 1
                     /\ LengthField(wire[p][1].body) > DATA_MAX_SIZE =>
                            /\ lastRead'[p].status = "FramingError"
                            /\ sc'[p].recv_buffer = sc[p].recv_buffer
              /\ (Reading(p) /\ ~taken /\ rx'[p] # rx[p]) =>
                     /\ lastRead'[p].status = "IoError"
                     /\ wire'[p] = wire[p]
                     /\ sc'[p].recv_nonce = nonce
                     /\ sc'[p].recv_buffer = sc[p].recv_buffer
              /\ sc'[p].recv_buffer # sc[p].recv_buffer =>
                     taken /\ AuthenticHead(p) /\ lastRead'[p].status = "Ok"
        ]_vars

\* A caller's read_exact has failed on the transport with recv_nonce at 1,
\* and its next one has opened a frame of length field 1025, rejected it and
\* left recv_nonce at 2
RecvNonceWitness ==
    \E p \in Readers :
        /\ Len(AppReads(p)) = 2
        /\ AppReads(p)[1].status = "IoError"
        /\ AppReads(p)[2].status = "FramingError"
        /\ lastRead[p].chunk_length = DATA_MAX_SIZE + 1
        /\ lastRead[p].nonce_before = 1
        /\ sc[p].recv_nonce = 2

\* A caller's read has refused an altered frame and left recv_nonce at 1
RecvNonceKeptOnAead ==
    \E p \in Readers :
        /\ pc[p] = "ready"
        /\ lastRead[p].status = "CryptoError"
        /\ lastRead[p].took = 1
        /\ sc[p].recv_nonce = 1

\* A read has been served from the leftover buffer
ServedFromLeftover ==
    \E p \in Peers : lastRead[p].leftover_before > 0 \/ sc[p].recv_buffer # <<>>

IsAuthCall(e) == e.auth
\* The write calls a peer made to send its auth-signature message
AuthWrites(p) == SelectSeq(writeLog[p], IsAuthCall)

RECURSIVE SumFrames(_)
SumFrames(log) == IF log = <<>> THEN 0 ELSE log[1].frames + SumFrames(Tail(log))

\* The handshake of p was run by SecretConnection::new
RanNew(p) == Len(AuthWrites(p)) <= 1

\* SecretConnection::new has returned a connection to p and its caller has
\* not used it yet
Fresh(p) == pc[p] = "ready" /\ ops[p] = 0

\* C24 as claimed: every connection returned by new has send_nonce = 1,
\* recv_nonce = 1 and an empty leftover buffer, one frame sealed and one opened.
FreshConnectionNoncesAny ==
    \A p \in Peers :
        (RanNew(p) /\ Fresh(p)) =>
            /\ sc[p].send_nonce = 1
            /\ sc[p].recv_nonce = 1
            /\ sc[p].recv_buffer = <<>>
            /\ Len(sealed[p]) = 1
            /\ Len(opened[p]) = 1

\* C24: new builds the connection with both nonces at zero and an empty
\* leftover buffer and seals exactly one frame for its auth-signature
\* message, so every connection it returns has send_nonce = 1 and an empty
\* leftover buffer, and its first application frame is sealed under nonce 1;
\* it opens as many frames as the peer used for its auth-signature message,
\* so recv_nonce is that number: 1, with the peer's first application frame
\* opened under nonce 1, when the peer ran new too.
FreshConnectionNonces ==
    \A p \in Peers :
        RanNew(p) =>
            /\ pc[p] = "auth_send" =>
                   /\ sc[p].built
                   /\ sc[p].send_nonce = 0 /\ sc[p].recv_nonce = 0
                   /\ sc[p].recv_buffer = <<>> /\ sc[p].remote_pubkey = <<>>
            /\ Fresh(p) =>
                   /\ sc[p].send_nonce = 1
                   /\ Len(sealed[p]) = 1
                   /\ sc[p].recv_buffer = <<>>
                   /\ sc[p].recv_nonce = SumFrames(AuthWrites(Other(p)))
                   /\ sc[p].recv_nonce = Len(opened[p])
                   /\ RanNew(Other(p)) => sc[p].recv_nonce = 1
            /\ \A i \in 1..Len(AppWrites(p)) :
                   (AppWrites(p)[i].frames > 0
                    /\ \A j \in 1..(i - 1) : AppWrites(p)[j].frames = 0) =>
                       /\ AppWrites(p)[i].nonce_before = 1
                       /\ sealed[p][2].nonce = 1
            /\ (RanNew(Other(p)) /\ Len(opened[p]) >= 2) =>
                   /\ opened[p][2].nonce = 1
                   /\ opened[p][2] = sealed[Other(p)][2]
                   /\ AppWrites(Other(p)) # <<>>

\* Both peers ran new, and each has sealed its first application frame and
\* opened the other's
FreshConnectionWitness ==
    \A p \in Peers :
        /\ RanNew(p)
        /\ pc[p] = "ready"
        /\ Len(sealed[p]) = 2
        /\ Len(opened[p]) = 2
        /\ opened[p][2].nonce = 1

\* new has returned a connection to a peer whose peer sent its
\* auth-signature message in two frames
SplitAuthAccepted ==
    \E p \in Peers :
        /\ RanNew(p) /\ Fresh(p)
        /\ ~RanNew(Other(p))
        /\ sc[p].recv_nonce = 2
        /\ sc[p].remote_pubkey = Ed25519Public(Keypair(Other(p)))

\* The frames of application data p has sealed and opened, the first frame
\* of each direction being that of the handshake
AppSealed(p) == SubSeq(sealed[p], 2, Len(sealed[p]))
AppOpened(p) == SubSeq(opened[p], 2, Len(opened[p]))

\* The bytes the caller of p has handed to write, in order
RECURSIVE Written(_)
Written(log) ==
    IF log = <<>> THEN <<>>
    ELSE Pattern(log[1].len, log[1].seed) \o Written(Tail(log))

\* The bytes read has handed to the caller of p
AppDelivered(p) ==
    ConcatBufs(AppReads(p)) \o (IF pc[p] = "ready" THEN rx[p].got ELSE <<>>)

\* The state of the direction from q to p is fixed by the write calls of q
\* and the read calls of p alone
DirectionOutcome(q, p) ==
    (pc[q] = "ready" /\ pc[p] = "ready") =>
        /\ Len(AppSealed(q)) = SumFrames(AppWrites(q))
        /\ ConcatChunks(AppSealed(q)) = Written(AppWrites(q))
        /\ sc[q].send_nonce = 1 + Len(AppSealed(q))
        /\ AppOpened(p) = SubSeq(AppSealed(q), 1, Len(AppOpened(p)))
        /\ sc[p].recv_nonce = 1 + Len(AppOpened(p))
        /\ Len(wire[p]) = Len(AppSealed(q)) - Len(AppOpened(p))
        /\ AppDelivered(p) = ConcatChunks(AppOpened(p))
        /\ AppDelivered(p) = SubSeq(Written(AppWrites(q)), 1, Len(AppDelivered(p)))
        /\ sc[p].recv_buffer = <<>>
        /\ \A k \in 1..Len(AppReads(p)) :
               /\ AppReads(p)[k].status = "Ok"
               /\ Len(AppReads(p)[k].buf) = AppReads(p)[k].want

\* C25: a write call of p changes send_nonce of p and appends to the stream
\* towards the peer, and leaves recv_nonce, the leftover buffer, both
\* ciphers, remote_pubkey and the incoming stream of p as they are; a read
\* call of p changes recv_nonce and the leftover buffer of p and takes from
\* its incoming stream, and leaves send_nonce, the ciphers and the outgoing
\* stream as they are; neither changes the connection of the peer.  So on
\* a full-duplex link the frames sealed and opened, the bytes delivered and
\* the nonces of each direction are fixed by the write and read calls of
\* that direction, however they interleave with those of the other.
DirectionsIndependent ==
    [][ \A p \in Peers :
          LET o == Other(p)
              wrote == writeLog'[p] # writeLog[p]
              readCall == Reading(p) /\ Len(wire'[p]) < Len(wire[p])
          IN  /\ wrote =>
                     /\ sc'[p] = [sc[p] EXCEPT !.send_nonce = sc'[p].send_nonce]
                     /\ wire'[p] = wire[p]
                     /\ opened'[p] = opened[p]
                     /\ readLog'[p] = readLog[p]
                     /\ Len(wire'[o]) >= Len(wire[o])
                     /\ SubSeq(wire'[o], 1, Len(wire[o])) = wire[o]
                     /\ sc'[o] = sc[o]
              /\ readCall =>
                     /\ sc'[p].send_nonce = sc[p].send_nonce
                     /\ sc'[p].send_cipher = sc[p].send_cipher
                     /\ sc'[p].recv_cipher = sc[p].recv_cipher
                     /\ pc[p] = "ready" => sc'[p].remote_pubkey = sc[p].remote_pubkey
                     /\ wire'[p] = Tail(wire[p])
                     /\ wire'[o] = wire[o]
                     /\ sealed'[p] = sealed[p]
                     /\ writeLog'[p] = writeLog[p]
                     /\ sc'[o] = sc[o]
              /\ DirectionOutcome(o, p)'
        ]_vars

\* Each peer has written a message and read the other's: the four calls
\* can have come in any order that puts a write before the read of it
FullDuplexWitness ==
    \A p \in Peers :
        /\ pc[p] = "ready"
        /\ Len(AppWrites(p)) = 1
        /\ Len(AppReads(p)) = 1
        /\ AppReads(p)[1].status = "Ok"
        /\ AppReads(p)[1].buf = Written(AppWrites(Other(p)))
        /\ sc[p].send_nonce = 2
        /\ sc[p].recv_nonce = 2

\* A peer has written while its peer's frame was in transit to it, and a
\* peer has read while its own frame was in transit
CrossingFrames ==
    /\ \A p \in Peers : pc[p] = "ready" /\ Len(wire[p]) = 1 /\ Len(AppWrites(p)) = 1

(***************************************************************************)
(* States between two blocking calls of one operation                      *)
(***************************************************************************)
\* share_eph_pubkey has taken the length byte and is inside
\* read_exact(&mut buf) with nothing read yet
LengthByteConsumed ==
    \E p \in Peers :
        /\ pc[p] = "eph_body"
        /\ rx[p].want > 0 /\ rx[p].got = <<>>
        /\ wire[p] # <<>>
        /\ Len(Head(wire[p]).bytes) = rx[p].want

\* read_exact(&mut buf) of share_eph_pubkey has read a part of the message
MessagePartlyRead ==
    \E p \in Peers :
        /\ pc[p] = "eph_body"
        /\ rx[p].got # <<>> /\ Len(rx[p].got) < rx[p].want

\* The peer has opened the first frame of a write call that has not yet
\* handed its second frame to the transport
ReadDuringWrite ==
    \E p \in Peers :
        /\ tx[p].active /\ pc[p] = "ready"
        /\ Len(tx[p].wire_bytes) = 1
        /\ sc[p].send_nonce = tx[p].nonce_before + 1
        /\ Len(opened[Other(p)]) = Len(sealed[p])
        /\ wire[Other(p)] = <<>>

\* The reader has opened the only frame a failing write handed to the
\* transport before the failing write_all began
ReadBeforeWriteFails ==
    \E p \in Peers :
        /\ tx[p].active /\ tx[p].accepts = 0
        /\ Len(opened[Other(p)]) = Len(sealed[p])

\* The peer of a splitting peer has opened the first of its two frames
\* before the second was sealed
ReadBetweenSplit ==
    \E p \in Peers :
        /\ pc[p] = "auth_split"
        /\ sc[p].send_nonce = 1
        /\ sc[Other(p)].recv_nonce = 1
        /\ pc[Other(p)] = "auth_wait"

\* SecretConnection::new has returned the error of its first write_all
FailedAtFirstWrite ==
    \E p \in Peers : pc[p] = "failed" /\ wire[Other(p)] = <<>> /\ hs[p] = NoHs

\* SecretConnection::new has returned the error of the write_all of its
\* auth-signature frame: the frame was sealed and send_nonce incremented
FailedAtAuthWrite ==
    \E p \in Peers :
        /\ pc[p] = "failed"
        /\ hs[p] # NoHs
        /\ sealed[p] = <<>>
        /\ sc[p].send_nonce = 1

\* got_signature has returned Ok on the neutral element with a signature
\* made without any key
KeylessSignatureAccepted ==
    \E p \in Peers :
        /\ call[p].op = "got_signature"
        /\ call[p].status = "Ok"
        /\ call[p].msg.pub_key.bytes \in NeutralKeys
        /\ \E s \in {0, 1, 4} : call[p].msg.sig = PointSignature(s, 0)
        /\ call[p].pubkey = call[p].msg.pub_key.bytes

\* got_signature has refused a 32-byte string that is no point of the
\* curve, sent with the signature of the peer over the challenge
NonPointRefused ==
    \E p \in Peers :
        /\ call[p].op = "got_signature"
        /\ call[p].status = "CryptoError"
        /\ call[p].at = "pub_key"
        /\ Len(call[p].msg.pub_key.bytes) = KEY_SIZE
        /\ call[p].msg.sig = try_sign(Keypair(Other(p)), ChallengeInput(p))

\* SecretConnection::new has returned a connection with the neutral element
\* as the peer's key
KeylessAccepted ==
    \E p \in Peers : pc[p] = "ready" /\ sc[p].remote_pubkey \in NeutralKeys

\* got_signature has returned Ok on a key of order 4 (32 zero bytes) with
\* the signature (neutral element, 0): the message is one whose k is a
\* multiple of 4
SmallOrderAccepted ==
    \E p \in Peers :
        /\ call[p].op = "got_signature"
        /\ call[p].status = "Ok"
        /\ call[p].msg.pub_key.bytes = Zeros(KEY_SIZE)
        /\ call[p].msg.sig = PointSignature(0, 0)
        /\ call[p].hram % 4 = 0
        /\ call[p].pubkey = Zeros(KEY_SIZE)

\* got_signature has refused, at verify, the same key and signature on a
\* message whose k is no multiple of 4
SmallOrderRefused ==
    \E p \in Peers :
        /\ call[p].op = "got_signature"
        /\ call[p].status = "CryptoError"
        /\ call[p].at = "verify"
        /\ call[p].msg.pub_key.bytes = Zeros(KEY_SIZE)
        /\ call[p].msg.sig = PointSignature(0, 0)
        /\ call[p].hram % 4 # 0

\* SecretConnection::new has returned a connection with a point of order 2
\* or 4 as the peer's key
SmallOrderConnected ==
    \E p \in Peers : pc[p] = "ready" /\ TorsionIndex(sc[p].remote_pubkey) > 0

\* SecretConnection::new has failed at verify on a key of small order
SmallOrderFailed ==
    \E p \in Peers :
        /\ pc[p] = "failed"
        /\ readLog[p] # <<>> /\ readLog[p][1].status = "Ok"
        /\ TorsionIndex(ReceivedAuthSig(p).pub_key.bytes) > 0
        /\ ReceivedAuthSig(p).sig \in WeakSigInputs
====
